---------------------------- MODULE Spec2Model ----------------------------
(***************************************************************************)
(* wrappe: the packer (src/src) builds a self-extracting package, the      *)
(* runner (src/startpe/src) locates the starter info inside its own image, *)
(* takes the unpack lock, verifies or extracts the payload and spawns the  *)
(* entry command.                                                          *)
(*                                                                         *)
(* Strings are sequences of byte values.  Records that are persisted are   *)
(* modelled by their ordered (field, width) lists and serialised to bytes  *)
(* exactly as a #[repr(C, packed)] struct is laid out.                     *)
(***************************************************************************)
EXTENDS Integers, Sequences, FiniteSets, TLC

(***************************************************************************)
(* Bytes and C strings                                                     *)
(***************************************************************************)
MinOf(S) == CHOOSE x \in S : \A y \in S : x <= y

MaxOf(S) == CHOOSE x \in S : \A y \in S : y <= x

Zeros(n) == [i \in 1..n |-> 0]

\* name_array[0..name.len()].copy_from_slice(name.as_bytes()) on a zeroed array
PadTo(s, n) == s \o Zeros(n - Len(s))

\* &a[0..a.iter().position(|&c| c == b'\0').unwrap_or(a.len())]
CStr(a) ==
  LET z == {i \in 1..Len(a) : a[i] = 0}
  IN  IF z = {} THEN a ELSE SubSeq(a, 1, MinOf(z) - 1)

RECURSIVE LEBytes(_, _)
\* little-endian image of an unsigned integer of w bytes
LEBytes(v, w) == IF w = 0 THEN <<>> ELSE <<v % 256>> \o LEBytes(v \div 256, w - 1)

RECURSIVE SumWidths(_)
SumWidths(layout) ==
  IF layout = <<>> THEN 0 ELSE Head(layout)[2] + SumWidths(Tail(layout))

\* size_of::<T>() of a packed struct
SizeOf(layout) == SumWidths(layout)

FieldIndex(layout, f) == CHOOSE i \in 1..Len(layout) : layout[i][1] = f

HasField(layout, f) == \E i \in 1..Len(layout) : layout[i][1] = f

\* byte offset of field f inside a packed struct
OffsetOf(layout, f) == SumWidths(SubSeq(layout, 1, FieldIndex(layout, f) - 1))

WidthOf(layout, f) == layout[FieldIndex(layout, f)][2]

(***************************************************************************)
(* Program constants                                                       *)
(***************************************************************************)
\* startpe/src/types.rs
WRAPPE_FORMAT == 203

WRAPPE_SIGNATURE_1 == <<80, 69, 51, 68, 0, 0>>

WRAPPE_SIGNATURE_2 == <<65, 84, 65, 0>>

NAME_SIZE == 128

ARGS_SIZE == 512

\* src/types.rs (packer)
PACKER_WRAPPE_FORMAT == 200

PACKER_NAME_SIZE == 128

\* the packer's main.rs writes `signature: WRAPPE_SIGNATURE`; the constant is
\* not defined in the packer's types.rs, its value is the format's 8-byte
\* sentinel "PE3DATA\0"
PACKER_WRAPPE_SIGNATURE == <<80, 69, 51, 68, 65, 84, 65, 0>>

\* the runner's 8-byte signature: main.rs lines 103-105
Signature == SubSeq(WRAPPE_SIGNATURE_1, 1, 4) \o SubSeq(WRAPPE_SIGNATURE_2, 1, 4)

SIG_LEN == 8

UID_SIZE == 16

U8 == 1

U32 == 4

U64 == 8

\* usize of the packer's build target (64-bit)
USIZE == 8

(***************************************************************************)
(* Record layouts: the runner's (startpe/src/types.rs)                     *)
(***************************************************************************)
RunnerStarterInfo ==
  << <<"signature", SIG_LEN>>, <<"show_console", U8>>, <<"current_dir", U8>>,
     <<"verification", U8>>, <<"show_information", U8>>, <<"uid", UID_SIZE>>,
     <<"unpack_target", U8>>, <<"versioning", U8>>, <<"once", U8>>,
     <<"nocleanup", U8>>, <<"wrappe_format", U8>>,
     <<"unpack_directory", NAME_SIZE>>, <<"command", NAME_SIZE>>,
     <<"arguments", ARGS_SIZE>> >>

RunnerPayloadHeader ==
  << <<"directory_sections", U64>>, <<"file_sections", U64>>,
     <<"symlink_sections", U64>>, <<"dictionary_size", U64>>,
     <<"section_hash", U64>>, <<"payload_size", U64>>,
     <<"sections_size", U64>>, <<"kind", U8>> >>

RunnerDirectorySection == << <<"name", NAME_SIZE>>, <<"parent", U32>> >>

RunnerFileSectionHeader ==
  << <<"position", U64>>, <<"size", U64>>, <<"name", NAME_SIZE>>,
     <<"file_hash", U64>>, <<"compressed_hash", U64>>,
     <<"time_accessed_seconds", U64>>, <<"time_modified_seconds", U64>>,
     <<"parent", U32>>, <<"mode", U32>>, <<"time_accessed_nanos", U32>>,
     <<"time_modified_nanos", U32>>, <<"readonly", U8>> >>

RunnerSymlinkSection ==
  << <<"name", NAME_SIZE>>, <<"parent", U32>>, <<"target", U32>>,
     <<"time_accessed_seconds", U64>>, <<"time_modified_seconds", U64>>,
     <<"time_accessed_nanos", U32>>, <<"time_modified_nanos", U32>>,
     <<"mode", U32>>, <<"kind", U8>>, <<"readonly", U8>> >>

(***************************************************************************)
(* Record layouts: the packer's (src/types.rs)                             *)
(***************************************************************************)
PackerStarterInfo ==
  << <<"signature", SIG_LEN>>, <<"show_console", U8>>, <<"current_dir", U8>>,
     <<"verification", U8>>, <<"show_information", U8>>, <<"uid", UID_SIZE>>,
     <<"unpack_target", U8>>, <<"versioning", U8>>, <<"wrappe_format", U8>>,
     <<"unpack_directory", PACKER_NAME_SIZE>>, <<"command", PACKER_NAME_SIZE>> >>

PackerPayloadHeader ==
  << <<"kind", U8>>, <<"directory_sections", USIZE>>, <<"file_sections", USIZE>>,
     <<"symlink_sections", USIZE>>, <<"section_hash", U64>>,
     <<"payload_size", U64>> >>

PackerDirectorySection == << <<"name", PACKER_NAME_SIZE>>, <<"parent", U32>> >>

PackerFileSectionHeader ==
  << <<"position", U64>>, <<"size", U64>>, <<"name", PACKER_NAME_SIZE>>,
     <<"parent", U32>>, <<"file_hash", U64>>, <<"compressed_hash", U64>>,
     <<"time_accessed_seconds", U64>>, <<"time_accessed_nanos", U32>>,
     <<"time_modified_seconds", U64>>, <<"time_modified_nanos", U32>>,
     <<"mode", U32>>, <<"readonly", U8>> >>

PackerSymlinkSection ==
  << <<"name", PACKER_NAME_SIZE>>, <<"parent", U32>>, <<"kind", U8>>,
     <<"target", U32>>, <<"time_accessed_seconds", U64>>,
     <<"time_accessed_nanos", U32>>, <<"time_modified_seconds", U64>>,
     <<"time_modified_nanos", U32>>, <<"mode", U32>>, <<"readonly", U8>> >>

RecordKinds ==
  {"StarterInfo", "PayloadHeader", "DirectorySection", "FileSectionHeader",
   "SymlinkSection"}

RunnerLayout(k) ==
  CASE k = "StarterInfo" -> RunnerStarterInfo
    [] k = "PayloadHeader" -> RunnerPayloadHeader
    [] k = "DirectorySection" -> RunnerDirectorySection
    [] k = "FileSectionHeader" -> RunnerFileSectionHeader
    [] k = "SymlinkSection" -> RunnerSymlinkSection

PackerLayout(k) ==
  CASE k = "StarterInfo" -> PackerStarterInfo
    [] k = "PayloadHeader" -> PackerPayloadHeader
    [] k = "DirectorySection" -> PackerDirectorySection
    [] k = "FileSectionHeader" -> PackerFileSectionHeader
    [] k = "SymlinkSection" -> PackerSymlinkSection

\* the fields that are byte arrays; every other field is an unsigned integer
ArrayFields ==
  {"signature", "uid", "unpack_directory", "command", "arguments", "name"}

(***************************************************************************)
(* Serialisation (AsBytes of a packed struct) and parsing (Ref::new)       *)
(***************************************************************************)
\* the bytes of one field: an array is stored as it is, an integer little-endian
FieldBytes(f, w, v) == IF f \in ArrayFields THEN PadTo(v, w) ELSE LEBytes(v, w)

RECURSIVE AsBytes(_, _)
\* val maps every field of the layout to its value
AsBytes(layout, val) ==
  IF layout = <<>> THEN <<>>
  ELSE FieldBytes(Head(layout)[1], Head(layout)[2], val[Head(layout)[1]])
         \o AsBytes(Tail(layout), val)

\* zerocopy Ref::<_, T>::new(bytes): None unless bytes is exactly size_of::<T>()
\* long; otherwise every field is the slice of bytes at its offset
RefNew(layout, bytes) ==
  IF Len(bytes) # SizeOf(layout) THEN [ok |-> FALSE, fields |-> <<>>]
  ELSE [ok |-> TRUE,
        fields |-> [f \in {layout[i][1] : i \in 1..Len(layout)} |->
                      SubSeq(bytes, OffsetOf(layout, f) + 1,
                             OffsetOf(layout, f) + WidthOf(layout, f))]]

(***************************************************************************)
(* State                                                                   *)
(***************************************************************************)
VARIABLES
  recKind,     \* record round trip: which of the five records
  recVal,      \* record round trip: the field values the packer holds
  recBytes,    \* record round trip: the bytes the packer wrote
  recParsed,   \* record round trip: what the runner's Ref::new yields
  mmap,        \* location of the starter info: the mapped executable
  located,     \* location of the starter info: outcome of main's lines 98-134
  platform,    \* the build and its lock semantics
  pkgOf,       \* the package each process slot launches
  pc,          \* where each runner process is in main / decompress
  info,        \* the starter info each process read from its own image
  loc,         \* main's and decompress's local variables of each process
  lock,        \* who holds the OS lock on each unpack directory's lock file
  fs,          \* the unpack directories
  touched,     \* what each launch created, wrote or removed so far
  launches,    \* number of launches so far
  tampers,     \* number of changes made to extracted files from outside
  argList,     \* the arguments given to the packer for baking
  argStored,   \* the arguments field of the starter info
  procArgs,    \* std::env::args() of the runner process, argv[0] first
  argv,        \* the arguments the entry command is started with
  argPc,       \* "pack", "launch", "started" or "refused"
  secPkg,      \* the package whose sections the engine reads
  secResult,   \* outcome of decompress's lines 59-198
  archive,     \* the packer's output: for every byte the file it belongs to
  arcLock,     \* the worker that holds the mutex of the output, or 0
  wpc,         \* where each file worker of the packer is
  wdata,       \* each worker's data: the compressed stream of its file
  wsent,       \* how many bytes of it copy has written so far
  wstart,      \* each worker's start
  wend,        \* each worker's end
  files,       \* the file records pushed so far
  payloadSize, \* payload_size of the trailer, once written
  entries,     \* the packer's walk of the source directory
  walked,      \* how many entries the directory pass has seen
  passed,      \* the entries the file pass and the symlink pass have seen
  parents,     \* the packer's parents: slash paths of directories
  directories, \* the directory records
  headers,     \* the file records (the packer's files)
  links,       \* the slash paths of the files that have a record
  pushing,     \* the file workers between files.push and links.push
  symlinkRecs, \* the symlink records (the packer's symlinks)
  errors,      \* the calls of error_callback: entry and reason
  trailer,     \* the payload header, once written
  lpc,         \* where the closure of each symlink record is in lines 434-515
  lnode        \* what there is at the path of each symlink record

recVars == <<recKind, recVal, recBytes, recParsed>>

locVars == <<mmap, located>>

runVars == <<platform, pkgOf, pc, info, loc, lock, fs, touched, launches, tampers>>

argVars == <<argList, argStored, procArgs, argv, argPc>>

secVars == <<secPkg, secResult>>

appVars == <<archive, arcLock, wpc, wdata, wsent, wstart, wend, files, payloadSize>>

packVars == <<entries, walked, passed, parents, directories, headers, links,
              pushing, symlinkRecs, errors, trailer>>

waitVars == <<lpc, lnode>>

sideVars == <<argVars, secVars, appVars, packVars, waitVars>>

vars == <<recKind, recVal, recBytes, recParsed, mmap, located, platform, pkgOf,
          pc, info, loc, lock, fs, touched, launches, tampers, argList,
          argStored, procArgs, argv, argPc, secPkg, secResult, archive,
          arcLock, wpc, wdata, wsent, wstart, wend, files, payloadSize,
          entries, walked, passed, parents, directories, headers, links,
          pushing, symlinkRecs, errors, trailer, lpc, lnode>>

(***************************************************************************)
(* Runner bootstrap: locating and validating the starter info              *)
(* startpe/src/main.rs lines 98-134                                        *)
(***************************************************************************)
\* &m[a..b]
Slice(m, a, b) == SubSeq(m, a + 1, b)

NotFound == 0 - 1

\* a search that reports the first occurrence instead of the last
RFindFirst(haystack, needle) ==
  LET P == {i \in 0..(Len(haystack) - Len(needle)) :
              Slice(haystack, i, i + Len(needle)) = needle}
  IN  IF P = {} THEN 0 - 1 ELSE MinOf(P)

\* memmem::rfind(haystack, needle): offset of the last occurrence
RFind(haystack, needle) ==
  LET P == {i \in 0..(Len(haystack) - Len(needle)) :
              Slice(haystack, i, i + Len(needle)) = needle}
  IN  IF P = {} THEN NotFound ELSE MaxOf(P)

\* a panic of the bootstrap; info_start is the offset in use, if any
FatalAt(why, start) == [status |-> "fatal", reason |-> why, info_start |-> start]

Fatal(why) == FatalAt(why, NotFound)

\* lines 107-114: the tail offset if the signature is there, else the last
\* occurrence of the signature, else nothing
InfoStart(m) ==
  LET tail == Len(m) - SizeOf(RunnerStarterInfo)
  IN  IF Slice(m, tail, tail + SIG_LEN) = Signature THEN tail
      ELSE RFind(m, Signature)

\* a validation that leaves out the comparison of wrappe_format
ValidateInfoNoFormat(m, start) ==
  LET raw == RefNew(RunnerStarterInfo,
                    Slice(m, start, start + SizeOf(RunnerStarterInfo))).fields
  IN  IF raw.signature # Signature
        THEN FatalAt("file signature is invalid", start)
      ELSE [status |-> "ok", reason |-> "", info_start |-> start]

\* lines 126-134 on the record read at info_start
ValidateInfo(m, start) ==
  LET raw == RefNew(RunnerStarterInfo,
                    Slice(m, start, start + SizeOf(RunnerStarterInfo))).fields
  IN  IF raw.signature # Signature
        THEN FatalAt("file signature is invalid", start)
      ELSE IF raw.wrappe_format[1] # WRAPPE_FORMAT
             THEN FatalAt("runner version differs from wrapper version", start)
      ELSE [status |-> "ok", reason |-> "", info_start |-> start]

\* lines 98-134
LocateStarterInfo(m) ==
  IF Len(m) < SizeOf(RunnerStarterInfo) THEN Fatal("file is too small")
  ELSE LET start == InfoStart(m)
       IN  IF start = NotFound THEN Fatal("couldn't find starter info")
           ELSE IF start + SizeOf(RunnerStarterInfo) > Len(m)
                  THEN FatalAt("starter info is too small", start)
           ELSE ValidateInfo(m, start)

\* the typed view of the starter info at info_start: u8 fields by value,
\* strings cut at the first NUL (lines 136-213)
ReadInfo(m, start) ==
  LET raw == RefNew(RunnerStarterInfo,
                    Slice(m, start, start + SizeOf(RunnerStarterInfo))).fields
  IN  [show_console |-> raw.show_console[1],
       current_dir |-> raw.current_dir[1],
       verification |-> raw.verification[1],
       show_information |-> raw.show_information[1],
       version |-> CStr(raw.uid),
       unpack_target |-> raw.unpack_target[1],
       versioning |-> raw.versioning[1],
       once |-> raw.once[1],
       nocleanup |-> raw.nocleanup[1],
       wrappe_format |-> raw.wrappe_format[1],
       unpack_dir_name |-> CStr(raw.unpack_directory),
       command_name |-> CStr(raw.command),
       arguments |-> CStr(raw.arguments)]

(***************************************************************************)
(* Record round trip: the packer writes a record with AsBytes of its own   *)
(* struct, the runner reads the same bytes through Ref::new of its struct  *)
(***************************************************************************)
Str(c) == <<c>>

\* the values main.rs (packer, lines 372-387) puts into the starter info
StarterInfoValues ==
  {[signature |-> PACKER_WRAPPE_SIGNATURE, show_console |-> 0, current_dir |-> 0,
    verification |-> ver, show_information |-> 1, cleanup |-> 0, nocleanup |-> 0,
    uid |-> PadTo(u, UID_SIZE), unpack_target |-> 0, versioning |-> vs,
    unpack_directory |-> Str(100), once |-> o, command |-> Str(101),
    arguments |-> <<>>, wrappe_format |-> PACKER_WRAPPE_FORMAT] :
     ver \in 0..2, vs \in 0..2, o \in 0..1, u \in {Str(65), Str(66)}}

\* the values compress.rs (lines 599-607) puts into the trailer
PayloadHeaderValues ==
  {[kind |-> 0, directory_sections |-> d, file_sections |-> f,
    symlink_sections |-> l, dictionary_size |-> 0, section_hash |-> h,
    payload_size |-> 2 * f, sections_size |-> 0] :
     d \in 0..1, f \in 0..2, l \in 0..1, h \in {7, 300}}

\* compress.rs lines 209-214
DirectorySectionValues ==
  {[name |-> Str(n), parent |-> par] : n \in {100, 101}, par \in 0..1}

\* compress.rs lines 378-414
FileSectionHeaderValues ==
  {[name |-> Str(n), parent |-> par, position |-> pos, size |-> 2,
    file_hash |-> 11, compressed_hash |-> 12, time_accessed_nanos |-> 0,
    time_accessed_seconds |-> 5, time_modified_nanos |-> 0,
    time_modified_seconds |-> 6, mode |-> 420, readonly |-> 0] :
     n \in {97, 99}, par \in 0..1, pos \in {0, 2}}

\* compress.rs lines 533-567
SymlinkSectionValues ==
  {[name |-> Str(n), parent |-> par, kind |-> k, target |-> t,
    time_accessed_nanos |-> 0, time_accessed_seconds |-> 5,
    time_modified_nanos |-> 0, time_modified_seconds |-> 6, mode |-> 511,
    readonly |-> 0] :
     n \in {108, 109}, par \in 0..1, k \in 0..1, t \in 0..1}

RecordValues(k) ==
  CASE k = "StarterInfo" -> StarterInfoValues
    [] k = "PayloadHeader" -> PayloadHeaderValues
    [] k = "DirectorySection" -> DirectorySectionValues
    [] k = "FileSectionHeader" -> FileSectionHeaderValues
    [] k = "SymlinkSection" -> SymlinkSectionValues

Pending == [stage |-> "pending", fields |-> <<>>]

RecInit ==
  /\ recKind \in RecordKinds
  /\ recVal \in RecordValues(recKind)
  /\ recBytes = <<>>
  /\ recParsed = Pending

\* target.write_all(record.as_bytes())
PackerWrite ==
  /\ recBytes = <<>>
  /\ recBytes' = AsBytes(PackerLayout(recKind), recVal)
  /\ UNCHANGED <<recKind, recVal, recParsed, locVars, runVars, sideVars>>

\* Ref::<_, T>::new(&bytes[start..start + size_of::<T>()]) on the bytes written:
\* the runner takes size_of::<T>() bytes where it expects the record to start;
\* a record shorter than that cannot be read
RunnerParse ==
  /\ recBytes # <<>>
  /\ recParsed = Pending
  /\ LET want == SizeOf(RunnerLayout(recKind))
         r == IF Len(recBytes) < want THEN [ok |-> FALSE, fields |-> <<>>]
              ELSE RefNew(RunnerLayout(recKind), SubSeq(recBytes, 1, want))
     IN  recParsed' = [stage |-> IF r.ok THEN "ok" ELSE "failed",
                       fields |-> r.fields]
  /\ UNCHANGED <<recKind, recVal, recBytes, locVars, runVars, sideVars>>

(***************************************************************************)
(* Packages                                                                *)
(***************************************************************************)
\* names and strings used by the packages of the model
NameA == Str(97)

NameC == Str(99)

NameD == Str(100)

NameL == Str(108)

NameM == Str(109)

UidA == Str(65)

UidB == Str(66)

\* the version string "0" a user may give the packer (args.rs lines 113-132)
Uid0 == Str(48)

UnpackName == Str(119)

\* the hash of a byte string (XxHash64 with HASH_SEED), on the small integers
\* that stand for byte strings here; injective on them
XxHash64(x) == (x * 31 + 7) % 251

\* zstd: the compressed stream of a content and back
Encode(content) == content + 10

Decode(blob) == blob - 10

\* the source tree of the packages: d/, a, d/c, l -> a, m -> d/
\* as directory, file and symlink records with the indices both sides use
\* (directory 0 is the root; a symlink's target indexes the directory list
\* for kind 0 and the file list for kind 1)
SourceDirs == << [name |-> NameD, parent |-> 0] >>

SourceFiles ==
  << [name |-> NameA, parent |-> 0, content |-> 1],
     [name |-> NameC, parent |-> 1, content |-> 2] >>

SourceLinks ==
  << [name |-> NameL, parent |-> 0, kind |-> 1, target |-> 0],
     [name |-> NameM, parent |-> 0, kind |-> 0, target |-> 1] >>

\* the payload a runner decodes from a package whose container matches its
\* own format: the records of decompress.rs lines 112-189
FileRecord(f) ==
  [name |-> f.name, parent |-> f.parent, blob |-> Encode(f.content),
   file_hash |-> XxHash64(f.content),
   compressed_hash |-> XxHash64(Encode(f.content))]

Payload ==
  [dirs |-> SourceDirs,
   files |-> [i \in 1..Len(SourceFiles) |-> FileRecord(SourceFiles[i])],
   links |-> SourceLinks]

\* the symlink records of a package: those of the whole tree, or of the tree
\* without its directory symlink (the first nlinks records)
Symlinks(pk) == SubSeq(Payload.links, 1, pk.nlinks)

\* a package is described by who built it and the options it was built with;
\* origin "packer" is the packer of src/src, origin "format" is a package whose
\* container has the runner's own layout, with the signature and the format
\* byte it carries, and with bytes appended after the starter info
Pkg(o, sig, fmt, u, vs, ver, on, tl) ==
  [origin |-> o, signature |-> sig, format |-> fmt, uid |-> u,
   versioning |-> vs, verification |-> ver, once |-> on, tail |-> tl,
   nlinks |-> Len(SourceLinks), badblob |-> 0, badsections |-> FALSE]

BadSignature == <<80, 69, 51, 68, 65, 84, 65, 1>>

GoodPackages ==
  {Pkg("format", Signature, WRAPPE_FORMAT, UidA, vs, ver, on, <<>>) :
     vs \in 0..2, ver \in 0..2, on \in 0..1}

BadPackages ==
  {Pkg("format", BadSignature, WRAPPE_FORMAT, UidA, 1, 1, 0, <<>>),
   Pkg("format", Signature, PACKER_WRAPPE_FORMAT, UidA, 1, 1, 0, <<>>),
   Pkg("format", Signature, WRAPPE_FORMAT + 1, UidA, 0, 0, 1, <<>>)}

PackerPackages ==
  {Pkg("packer", PACKER_WRAPPE_SIGNATURE, PACKER_WRAPPE_FORMAT, UidA, vs, ver, 0,
       <<>>) : vs \in {0, 1}, ver \in {0, 1}}

\* the same packages built from the tree without the directory symlink
FlatPackages == {[pk EXCEPT !.nlinks = 1] : pk \in GoodPackages}

\* packages built with the version string "0"
ZeroUidPackages ==
  {Pkg("format", Signature, WRAPPE_FORMAT, Uid0, vs, ver, 0, <<>>) :
     vs \in {0, 1}, ver \in {0, 1}}

\* package files changed after they were built: a byte of the compressed
\* stream of file record i, or a byte of the section records
DamagedPackages ==
  LET base == {pk \in FlatPackages : pk.verification = 0 /\ pk.once = 0}
  IN  {[pk EXCEPT !.badblob = i] : pk \in base, i \in 1..Len(SourceFiles)}
        \cup {[pk EXCEPT !.badsections = TRUE] :
                 pk \in {b \in base : b.versioning = 1}}

Packages ==
  GoodPackages \cup FlatPackages \cup BadPackages \cup PackerPackages
    \cup ZeroUidPackages \cup DamagedPackages

\* the bytes of the range of file record i in the payload blob of a package
\* (decompress.rs lines 350-351)
Content(pk, i) ==
  IF pk.badblob = i THEN Payload.files[i].blob + 1 ELSE Payload.files[i].blob

\* the starter info values main.rs (packer, lines 372-387) writes for a package
InfoValues(pk) ==
  [signature |-> pk.signature, show_console |-> 0, current_dir |-> 0,
   verification |-> pk.verification, show_information |-> 1, cleanup |-> 0,
   nocleanup |-> 0, uid |-> PadTo(pk.uid, UID_SIZE), unpack_target |-> 0,
   versioning |-> pk.versioning, unpack_directory |-> UnpackName,
   once |-> pk.once, command |-> NameA, arguments |-> <<>>,
   wrappe_format |-> pk.format]

\* stand-in for the runner executable image ("MZ" and two bytes)
ImageStub == <<77, 90, 1, 2>>

\* the compressed file contents of a package, one byte per file
Blob(pk) == [i \in 1..Len(Payload.files) |-> Content(pk, i)]

\* the values of the section records (compress.rs lines 211-214, 380-393 and
\* 535-546; times, mode and readonly are left 0)
DirectoryValues(d) == [name |-> d.name, parent |-> d.parent]

FileValues(i) ==
  LET f == Payload.files[i]
  IN  [name |-> f.name, parent |-> f.parent, position |-> i - 1, size |-> 1,
       file_hash |-> f.file_hash, compressed_hash |-> f.compressed_hash,
       time_accessed_nanos |-> 0, time_accessed_seconds |-> 0,
       time_modified_nanos |-> 0, time_modified_seconds |-> 0, mode |-> 0,
       readonly |-> 0]

SymlinkValues(l) ==
  [name |-> l.name, parent |-> l.parent, kind |-> l.kind, target |-> l.target,
   time_accessed_nanos |-> 0, time_accessed_seconds |-> 0,
   time_modified_nanos |-> 0, time_modified_seconds |-> 0, mode |-> 0,
   readonly |-> 0]

RECURSIVE Flatten(_)
Flatten(seqs) == IF seqs = <<>> THEN <<>> ELSE Head(seqs) \o Flatten(Tail(seqs))

\* the section records of a package in the order they are written and
\* hashed: directories, files, symlinks (compress.rs lines 586-597)
SectionBytes(pk, dl, fl, sl) ==
  Flatten([i \in 1..Len(Payload.dirs) |->
             AsBytes(dl, DirectoryValues(Payload.dirs[i]))])
    \o Flatten([i \in 1..Len(Payload.files) |-> AsBytes(fl, FileValues(i))])
    \o Flatten([i \in 1..pk.nlinks |->
                  AsBytes(sl, SymlinkValues(Payload.links[i]))])

RECURSIVE WeighedSum(_, _, _)
WeighedSum(bytes, lo, hi) ==
  IF lo > hi THEN 0
  ELSE IF lo = hi THEN bytes[lo] * ((lo % 7) + 1)
  ELSE LET mid == (lo + hi) \div 2
       IN  WeighedSum(bytes, lo, mid) + WeighedSum(bytes, mid + 1, hi)

\* the hash of a byte sequence (XxHash64 with HASH_SEED); writing the pieces
\* of a sequence one after the other hashes the sequence
XxHash64Bytes(bytes) ==
  (WeighedSum(bytes, 1, Len(bytes)) * 31 + Len(bytes) + 7) % 251

\* zstd on byte sequences: a frame starts with the magic number
ZMagic == <<40, 181, 47, 253>>

EncodeAll(bytes) == ZMagic \o bytes

DecodeAll(bytes) ==
  IF Len(bytes) >= Len(ZMagic) /\ SubSeq(bytes, 1, Len(ZMagic)) = ZMagic
    THEN [ok |-> TRUE, bytes |-> SubSeq(bytes, Len(ZMagic) + 1, Len(bytes))]
    ELSE [ok |-> FALSE, bytes |-> <<>>]

PackerSections(pk) ==
  SectionBytes(pk, PackerDirectorySection, PackerFileSectionHeader,
               PackerSymlinkSection)

\* the section records of a package in the runner's format, as built, and as
\* they decode after a byte of the section table was changed
RunnerSections(pk) ==
  SectionBytes(pk, RunnerDirectorySection, RunnerFileSectionHeader,
               RunnerSymlinkSection)

StoredSections(pk) ==
  IF pk.badsections
    THEN [RunnerSections(pk) EXCEPT ![1] = (@ + 1) % 256]
    ELSE RunnerSections(pk)

\* the trailer compress.rs (lines 598-607) appends
PackerTrailer(pk) ==
  AsBytes(PackerPayloadHeader,
          [kind |-> 0, directory_sections |-> Len(SourceDirs),
           file_sections |-> Len(SourceFiles),
           symlink_sections |-> pk.nlinks,
           section_hash |-> XxHash64Bytes(PackerSections(pk)),
           payload_size |-> Len(Blob(pk))])

RunnerTrailer(pk) ==
  AsBytes(RunnerPayloadHeader,
          [kind |-> 0, directory_sections |-> Len(SourceDirs),
           file_sections |-> Len(SourceFiles),
           symlink_sections |-> pk.nlinks, dictionary_size |-> 0,
           section_hash |-> XxHash64Bytes(RunnerSections(pk)),
           payload_size |-> Len(Blob(pk)),
           sections_size |-> Len(EncodeAll(StoredSections(pk)))])

\* the bytes of the package file: image, compressed files, section records,
\* trailer, starter info and whatever was appended afterwards (packer main.rs
\* lines 231-391, compress.rs lines 582-607)
Image(pk) ==
  IF pk.origin = "packer"
    THEN ImageStub \o Blob(pk) \o PackerSections(pk) \o PackerTrailer(pk)
           \o AsBytes(PackerStarterInfo, InfoValues(pk)) \o pk.tail
    ELSE ImageStub \o Blob(pk) \o EncodeAll(StoredSections(pk))
           \o RunnerTrailer(pk) \o AsBytes(RunnerStarterInfo, InfoValues(pk))
           \o pk.tail

(***************************************************************************)
(* Bounds                                                                  *)
(***************************************************************************)
NumProcs == 2

MaxLaunches == 3

MaxTampers == 1

Procs == 1..NumProcs

(***************************************************************************)
(* The file system under the unpack directories                            *)
(***************************************************************************)
LOCK_FILE == <<46, 95, 119, 114, 97, 112, 112, 101, 95, 108, 111, 99, 107, 95>>

VERSION_FILE == <<46, 95, 119, 114, 97, 112, 112, 101, 95, 117, 105, 100, 95>>

\* std::env::temp_dir()
TempDir == Str(116)

\* an unpack directory that never carries the UID
UnpackDirOfShared(i) == <<TempDir, i.unpack_dir_name>>

\* main.rs lines 192-201
UnpackDirOf(i) ==
  IF i.versioning = 0 THEN <<TempDir, i.unpack_dir_name, i.version>>
  ELSE <<TempDir, i.unpack_dir_name>>

UnpackDirs ==
  {<<TempDir, UnpackName>>, <<TempDir, UnpackName, UidA>>,
   <<TempDir, UnpackName, UidB>>, <<TempDir, UnpackName, Uid0>>}

IsPrefix(a, b) == Len(a) <= Len(b) /\ SubSeq(b, 1, Len(a)) = a

\* the directory list decompress.rs builds (lines 112-141); entry 1 is the
\* root (index 0 of the code), entry i + 1 belongs to directory record i
RECURSIVE DirList(_, _)
DirList(dirs, acc) ==
  IF dirs = <<>> THEN acc
  ELSE DirList(Tail(dirs),
               Append(acc, acc[Head(dirs).parent + 1] \o <<Head(dirs).name>>))

Directories == DirList(Payload.dirs, << <<>> >>)

\* unpack_dir.join(&directories[rec.parent]).join(name), relative to unpack_dir
RelPath(rec) == Directories[rec.parent + 1] \o <<rec.name>>

NodePaths ==
  {Directories[i] : i \in 2..Len(Directories)}
    \cup {RelPath(Payload.files[i]) : i \in 1..Len(Payload.files)}
    \cup {RelPath(Payload.links[i]) : i \in 1..Len(Payload.links)}

Absent == [kind |-> "absent", content |-> 0, target |-> <<>>]

DirNode == [kind |-> "dir", content |-> 0, target |-> <<>>]

FileNode(c) == [kind |-> "file", content |-> c, target |-> <<>>]

LinkNode(t) == [kind |-> "link", content |-> 0, target |-> t]

NoSentinel == [present |-> FALSE, data |-> <<>>]

EmptyDir ==
  [exists |-> FALSE, lockfile |-> FALSE, sentinel |-> NoSentinel,
   nodes |-> [q \in NodePaths |-> Absent]]

\* the node a path names, symbolic links followed (metadata, exists, is_file,
\* open); d is the absolute path of the unpack directory, f its state
RECURSIVE Resolve(_, _, _, _)
Resolve(f, d, rel, fuel) ==
  IF rel = <<>> THEN (IF f.exists THEN DirNode ELSE Absent)
  ELSE IF rel \notin NodePaths THEN Absent
  ELSE LET n == f.nodes[rel]
       IN  IF n.kind # "link" THEN n
           ELSE IF fuel = 0 \/ ~IsPrefix(d, n.target) THEN Absent
           ELSE Resolve(f, d, SubSeq(n.target, Len(d) + 1, Len(n.target)),
                        fuel - 1)

LinkFuel == 3

\* Path::exists
PathExists(f, d, rel) == Resolve(f, d, rel, LinkFuel).kind # "absent"

\* Path::is_file
PathIsFile(f, d, rel) == Resolve(f, d, rel, LinkFuel).kind = "file"

\* the directory a path lies in is there
ParentIsDir(f, d, rel) ==
  Resolve(f, d, SubSeq(rel, 1, Len(rel) - 1), LinkFuel).kind = "dir"

HasChildren(f, rel) ==
  \E q \in NodePaths : Len(q) > Len(rel) /\ IsPrefix(rel, q)
                         /\ f.nodes[q].kind # "absent"

\* versioning.rs get_version
get_version(f) == IF f.sentinel.present THEN f.sentinel.data ELSE Str(48)

\* versioning.rs set_version
set_version(f, version) ==
  [f EXCEPT !.sentinel = [present |-> TRUE, data |-> version]]

(***************************************************************************)
(* The OS lock on unpack_dir/._wrappe_lock_                                *)
(*                                                                         *)
(* fslock locks with flock (unix) or LockFileEx (windows): the lock        *)
(* belongs to the handle, and a second handle of the same process waits    *)
(* like any other.  Where the platform keeps file locks per process (the   *)
(* fcntl-style emulation), a process that holds the lock gets it again     *)
(* through any handle, and loses it when it unlocks or closes any handle   *)
(* of the file.                                                            *)
(***************************************************************************)
Platforms == {"windows", "unix", "unix_fcntl"}

PerProcessLocks == platform = "unix_fcntl"

Free == [proc |-> 0, handle |-> ""]

\* a lock that excludes nobody
CanLockAlways(p, d) == TRUE

\* LockFile::try_lock would succeed / LockFile::lock would return
CanLock(p, d) == lock[d] = Free \/ (PerProcessLocks /\ lock[d].proc = p)

Locked(p, h, d) == [lock EXCEPT ![d] = [proc |-> p, handle |-> h]]

\* drop of the handle h of process p
Unlocked(p, h, d) ==
  IF PerProcessLocks
    THEN [lock EXCEPT ![d] = IF @.proc = p THEN Free ELSE @]
    ELSE [lock EXCEPT ![d] = IF @ = [proc |-> p, handle |-> h] THEN Free ELSE @]

\* the process ends: every handle it holds is closed
ProcessGone(p) == [d \in UnpackDirs |-> IF lock[d].proc = p THEN Free ELSE lock[d]]

(***************************************************************************)
(* Runner bootstrap: startpe/src/main.rs                                   *)
(***************************************************************************)
NoInfo == [version |-> <<>>]

NoLoc ==
  [dir |-> <<>>, should_extract |-> FALSE, verification |-> 0,
   extracted |-> FALSE, filesLeft |-> {}, linksLeft |-> {},
   sentinelEq |-> FALSE, filesOk |-> FALSE, verified |-> FALSE]

MarkUnpackDir == <<Str(1)>>

MarkSentinel == <<Str(2)>>

Ended(p) == pc[p] \in {"idle", "done", "fatal", "exited"}

\* a panic: the hook prints, the process unwinds and ends, its handles close
Panic(p) ==
  /\ pc' = [pc EXCEPT ![p] = "fatal"]
  /\ lock' = ProcessGone(p)

\* lines 77-190 for one package file: map it, locate and validate the
\* starter info, read the options
Bootstrap(pk) ==
  LET r == LocateStarterInfo(Image(pk))
  IN  [result |-> r,
       info |-> IF r.status = "ok" THEN ReadInfo(Image(pk), r.info_start)
                ELSE NoInfo]

\* a second package: the same options under another UID
OtherUid(pk) == [pk EXCEPT !.uid = UidB]

AllPackages ==
  Packages \cup {OtherUid(pk) : pk \in GoodPackages \cup FlatPackages}

\* Bootstrap, tabulated over the packages of the model
Booted == [pk \in AllPackages |-> Bootstrap(pk)]

\* u64::from_le_bytes(..) as usize; every value of more than three bytes
\* stands for one that exceeds all lengths and hashes at hand
Huge == 16777216

FromLE(bytes) ==
  IF \E i \in 4..Len(bytes) : bytes[i] # 0 THEN Huge
  ELSE bytes[1] + 256 * bytes[2] + 65536 * bytes[3]

NotRead == [status |-> "pending", reason |-> "", computed |-> NotFound,
            expected |-> NotFound]

SectionsFatal(why) ==
  [status |-> "fatal", reason |-> why, computed |-> NotFound,
   expected |-> NotFound]

\* decompress.rs line 192
SectionHashMatches(computed, expected) == computed = expected

\* decompress.rs lines 59-198 on m = &mmap[..info_start]: read the trailer,
\* decode the section records, hash them in their order and compare with the
\* trailer's section_hash
ReadSections(m) ==
  LET hsize == SizeOf(RunnerPayloadHeader)
      start == Len(m) - hsize
  IN  IF start < 0 THEN SectionsFatal("couldn't read payload header")
      ELSE
        LET h == RefNew(RunnerPayloadHeader, Slice(m, start, Len(m))).fields
            ssize == FromLE(h.sections_size)
            fstart == FromLE(h.directory_sections)
                        * SizeOf(RunnerDirectorySection)
            sstart == fstart + FromLE(h.file_sections)
                                 * SizeOf(RunnerFileSectionHeader)
        IN  IF ssize > start \/ FromLE(h.directory_sections) >= Huge
                 \/ FromLE(h.file_sections) >= Huge
              THEN SectionsFatal("range out of bounds")
            ELSE
              LET dec == DecodeAll(Slice(m, start - ssize, start))
                  sections == dec.bytes
              IN  IF ~dec.ok
                    THEN SectionsFatal("couldn't decompress payload sections")
                  ELSE IF \/ sstart > Len(sections)
                          \/ (Len(sections) - sstart)
                               % SizeOf(RunnerSymlinkSection) # 0
                    THEN SectionsFatal("range out of bounds")
                  ELSE [status |->
                          IF SectionHashMatches(XxHash64Bytes(sections),
                                                FromLE(h.section_hash))
                            THEN "ok" ELSE "fatal",
                        reason |->
                          IF SectionHashMatches(XxHash64Bytes(sections),
                                                FromLE(h.section_hash))
                            THEN ""
                            ELSE "section hash differs from expected section hash",
                        computed |-> XxHash64Bytes(sections),
                        expected |-> FromLE(h.section_hash)]

\* the engine's reading of the sections of a package file whose starter info
\* was located
OpenSections(pk) ==
  LET at == Booted[pk].result.info_start
  IN  IF at = NotFound THEN SectionsFatal("couldn't find starter info")
      ELSE ReadSections(Slice(Image(pk), 0, at))

\* OpenSections, tabulated over the packages of the model
Opened == [pk \in AllPackages |-> OpenSections(pk)]

\* lines 77-217: a launch begins; fatal when the starter info is not found or
\* not valid, or the unpack target is unknown
Start(p) ==
  /\ pc[p] = "idle"
  /\ launches < MaxLaunches
  /\ launches' = launches + 1
  /\ touched' = [touched EXCEPT ![p] = {}]
  /\ LET b == Booted[pkgOf[p]]
     IN  IF b.result.status = "fatal" \/ b.info.unpack_target \notin 0..2
           THEN /\ pc' = [pc EXCEPT ![p] = "fatal"]
                /\ info' = [info EXCEPT ![p] = NoInfo]
                /\ loc' = [loc EXCEPT ![p] = NoLoc]
           ELSE /\ pc' = [pc EXCEPT ![p] = "mkdir"]
                /\ info' = [info EXCEPT ![p] = b.info]
                /\ loc' = [loc EXCEPT ![p] =
                             [NoLoc EXCEPT !.dir = UnpackDirOf(b.info)]]
  /\ UNCHANGED <<recVars, locVars, sideVars, platform, pkgOf, lock, fs, tampers>>

\* create_dir_all on an unpack directory: it and the directories above it
CreatedUnpackDir(d) ==
  [e \in UnpackDirs |-> IF IsPrefix(e, d) THEN [fs[e] EXCEPT !.exists = TRUE]
                        ELSE fs[e]]

\* lines 219-220
MkDir(p) ==
  /\ pc[p] = "mkdir"
  /\ fs' = CreatedUnpackDir(loc[p].dir)
  /\ touched' = [touched EXCEPT ![p] =
                   IF fs[loc[p].dir].exists THEN @ ELSE @ \cup {MarkUnpackDir}]
  /\ pc' = [pc EXCEPT ![p] = "lock"]
  /\ UNCHANGED <<recVars, locVars, sideVars, platform, pkgOf, info, loc, lock, launches, tampers>>

\* a try_lock whose failure is treated as an error
LockGuardPanics(p) ==
  /\ pc[p] = "lock"
  /\ LET d == loc[p].dir
     IN  /\ fs' = [fs EXCEPT ![d].lockfile = TRUE]
         /\ IF CanLock(p, d)
              THEN /\ lock' = Locked(p, "guard", d)
                   /\ pc' = [pc EXCEPT ![p] = IF info[p].once = 1 THEN "once"
                                              ELSE "decide"]
              ELSE /\ info[p].once = 1
                   /\ Panic(p)
  /\ UNCHANGED <<recVars, locVars, sideVars, platform, pkgOf, info, loc, touched, launches, tampers>>

\* lines 222-234: LockFileGuard::try_lock when once = 1, else the blocking
\* LockFileGuard::lock; both open (create) the lock file first
LockGuard(p) ==
  /\ pc[p] = "lock"
  /\ LET d == loc[p].dir
     IN  /\ fs' = [fs EXCEPT ![d].lockfile = TRUE]
         /\ IF info[p].once = 1
              THEN IF CanLock(p, d)
                     THEN /\ lock' = Locked(p, "guard", d)
                          /\ pc' = [pc EXCEPT ![p] = "once"]
                     ELSE \* "another instance is already unpacking, exiting..."
                          /\ lock' = lock
                          /\ pc' = [pc EXCEPT ![p] = "exited"]
              ELSE /\ CanLock(p, d)
                   /\ lock' = Locked(p, "guard", d)
                   /\ pc' = [pc EXCEPT ![p] = "decide"]
  /\ UNCHANGED <<recVars, locVars, sideVars, platform, pkgOf, info, loc, touched, launches, tampers>>

\* once.rs check_instance: a live process whose executable is run_path
InstanceRunning(p) ==
  \E q \in Procs : /\ pc[q] = "running"
                   /\ loc[q].dir \o <<info[q].command_name>>
                        = loc[p].dir \o <<info[p].command_name>>

\* lines 236-246
OnceCheck(p) ==
  /\ pc[p] = "once"
  /\ IF InstanceRunning(p)
       THEN \* "another instance is already running, exiting...": return
            /\ pc' = [pc EXCEPT ![p] = "exited"]
            /\ lock' = Unlocked(p, "guard", loc[p].dir)
       ELSE /\ pc' = [pc EXCEPT ![p] = "decide"]
            /\ lock' = lock
  /\ UNCHANGED <<recVars, locVars, sideVars, platform, pkgOf, info, loc, fs, touched, launches, tampers>>

\* a decision by the sentinel alone, whatever the versioning
ShouldExtractBySentinel(versioning, stored, version) == stored # version

\* a decision that ignores the sentinel
ShouldExtractAlways(versioning, stored, version) == TRUE

\* lines 248-252
ShouldExtract(versioning, stored, version) ==
  IF versioning \in {0, 1} THEN stored # version ELSE TRUE

\* lines 254-258
Verification(should_extract, verification) ==
  IF ~should_extract THEN verification ELSE 0

\* every file record names a regular file
FilesPresent(f, d) ==
  \A i \in 1..Len(Payload.files) : PathIsFile(f, d, RelPath(Payload.files[i]))

\* lines 248-264: decide; when the engine is needed, decompress is entered and
\* runs up to its own lock (decompress.rs lines 59-203: parse the trailer and
\* the sections, check the section hash, create_dir_all, open the lock file)
Decide(p) ==
  /\ pc[p] = "decide"
  /\ LET d == loc[p].dir
         se == ShouldExtract(info[p].versioning, get_version(fs[d]),
                             info[p].version)
         ver == Verification(se, info[p].verification)
     IN  /\ loc' = [loc EXCEPT ![p].should_extract = se,
                               ![p].verification = ver,
                               ![p].sentinelEq = (get_version(fs[d]) = info[p].version),
                               ![p].filesOk = FilesPresent(fs[d], d)]
         /\ IF (se \/ ver > 0) /\ Opened[pkgOf[p]].status = "fatal"
              THEN Panic(p)
              ELSE /\ pc' = [pc EXCEPT ![p] = IF se \/ ver > 0 THEN "dlock"
                                              ELSE "unlock"]
                   /\ lock' = lock
  /\ UNCHANGED <<recVars, locVars, sideVars, platform, pkgOf, info, fs, touched, launches, tampers>>

(***************************************************************************)
(* Decompression engine: startpe/src/decompress.rs                         *)
(***************************************************************************)
\* lines 203-204: LockFile::open(..) and the blocking lockfile.lock(), on a
\* handle of its own
EngineLock(p) ==
  /\ pc[p] = "dlock"
  /\ CanLock(p, loc[p].dir)
  /\ lock' = Locked(p, "engine", loc[p].dir)
  /\ pc' = [pc EXCEPT ![p] = "verify"]
  /\ UNCHANGED <<recVars, locVars, sideVars, platform, pkgOf, info, loc, fs, touched, launches, tampers>>

\* a verification that never hashes the content
FileVerifiedNoHash(f, d, verification, rec) == PathIsFile(f, d, RelPath(rec))

\* a verification that leaves out the is_file test
FileVerifiedNoExistence(f, d, verification, rec) ==
  verification = 2 =>
    XxHash64(Resolve(f, d, RelPath(rec), LinkFuel).content) = rec.file_hash

\* lines 211-258: one file record passes verification
FileVerified(f, d, verification, rec) ==
  /\ PathIsFile(f, d, RelPath(rec))
  /\ verification = 2 =>
       XxHash64(Resolve(f, d, RelPath(rec), LinkFuel).content) = rec.file_hash

\* a verification that accepts every link into the unpack directory
LinkVerifiedAnyTarget(f, d, rec) ==
  LET n == f.nodes[RelPath(rec)]
  IN  n.kind = "link" /\ IsPrefix(d, n.target)

\* lines 266-316: one symlink record passes verification
LinkVerified(f, d, rec) ==
  LET n == f.nodes[RelPath(rec)]
  IN  /\ n.kind = "link"
      /\ IsPrefix(d, n.target)
      /\ rec.kind = 0 => n.target = d \o Directories[rec.target + 1]
      /\ rec.kind = 1 => n.target = d \o RelPath(Payload.files[rec.target + 1])

\* lines 207-259
VerifyFiles(f, d, verification, should_extract) ==
  IF verification > 0 /\ ~should_extract /\ Len(Payload.files) > 0
    THEN ~ \A i \in 1..Len(Payload.files) :
             FileVerified(f, d, verification, Payload.files[i])
    ELSE should_extract

\* lines 262-317
VerifyLinks(f, d, symlinks, verification, should_extract) ==
  IF verification > 0 /\ ~should_extract /\ Len(symlinks) > 0
    THEN ~ \A i \in 1..Len(symlinks) : LinkVerified(f, d, symlinks[i])
    ELSE should_extract

\* lines 206-319: the verify pass and the decision to extract
Verify(p) ==
  /\ pc[p] = "verify"
  /\ LET d == loc[p].dir
         s1 == VerifyFiles(fs[d], d, loc[p].verification, loc[p].should_extract)
         s2 == VerifyLinks(fs[d], d, Symlinks(pkgOf[p]), loc[p].verification, s1)
     IN  /\ loc' = [loc EXCEPT ![p].should_extract = s2, ![p].verified = TRUE]
         /\ pc' = [pc EXCEPT ![p] = IF s2 THEN "xdirs" ELSE "dret"]
  /\ UNCHANGED <<recVars, locVars, sideVars, platform, pkgOf, info, lock, fs, touched, launches, tampers>>

\* a pass that goes from the files to the sentinel
StageWithoutLinks(filesLeft, linksLeft) ==
  IF filesLeft # {} THEN "xfiles" ELSE "setver"

\* a pass that creates the symlinks before it unpacks the files
StageLinksFirst(filesLeft, linksLeft) ==
  IF linksLeft # {} THEN "xlinks"
  ELSE IF filesLeft # {} THEN "xfiles"
  ELSE "setver"

\* the passes of lines 335-518 in their order: directories, files (all of
\* them), symlinks (all of them), the sentinel
Stage(filesLeft, linksLeft) ==
  IF filesLeft # {} THEN "xfiles"
  ELSE IF linksLeft # {} THEN "xlinks"
  ELSE "setver"

\* create_dir_all of the directories in list order, from index i on: the
\* state reached, whether every call succeeded, and the directories made
RECURSIVE MakeDirs(_, _, _, _)
MakeDirs(f, d, i, made) ==
  IF i > Len(Directories) THEN [ok |-> TRUE, f |-> f, made |-> made]
  ELSE LET rel == Directories[i]
           n == Resolve(f, d, rel, LinkFuel)
       IN  IF n.kind = "dir" THEN MakeDirs(f, d, i + 1, made)
           ELSE IF rel = <<>> THEN
             MakeDirs([f EXCEPT !.exists = TRUE], d, i + 1, made)
           ELSE IF f.nodes[rel].kind = "absent" /\ ParentIsDir(f, d, rel) THEN
             MakeDirs([f EXCEPT !.nodes[rel] = DirNode], d, i + 1,
                      made \cup {rel})
           ELSE [ok |-> FALSE, f |-> f, made |-> made]

\* lines 335-340
ExtractDirs(p) ==
  /\ pc[p] = "xdirs"
  /\ LET d == loc[p].dir
         r == MakeDirs(fs[d], d, 1, {})
     IN  /\ fs' = [fs EXCEPT ![d] = r.f]
         /\ touched' = [touched EXCEPT ![p] = @ \cup r.made]
         /\ IF r.ok
              THEN /\ pc' = [pc EXCEPT ![p] =
                              Stage(1..Len(Payload.files),
                                    1..Len(Symlinks(pkgOf[p])))]
                   /\ loc' = [loc EXCEPT ![p].filesLeft = 1..Len(Payload.files),
                                         ![p].linksLeft =
                                           1..Len(Symlinks(pkgOf[p]))]
                   /\ lock' = lock
              ELSE /\ Panic(p)
                   /\ loc' = loc
  /\ UNCHANGED <<recVars, locVars, sideVars, platform, pkgOf, info, launches, tampers>>

\* the node File::options().write(true).create(true).truncate(true).open(path)
\* writes: the path itself, or where its symbolic link leads; <<>> when the
\* open fails
RECURSIVE OpenForWrite(_, _, _, _)
OpenForWrite(f, d, rel, fuel) ==
  IF rel \notin NodePaths \/ ~ParentIsDir(f, d, rel) THEN <<>>
  ELSE LET n == f.nodes[rel]
       IN  CASE n.kind = "dir" -> <<>>
             [] n.kind \in {"file", "absent"} -> rel
             [] n.kind = "link" ->
                  IF fuel = 0 \/ ~IsPrefix(d, n.target) THEN <<>>
                  ELSE OpenForWrite(f, d, SubSeq(n.target, Len(d) + 1,
                                                 Len(n.target)), fuel - 1)

\* a comparison that accepts every hash
HashMatchesAlways(content, compressed_hash) == TRUE

\* lines 371-372: the hash of the bytes read against the record's
HashMatches(content, compressed_hash) == XxHash64(content) = compressed_hash

\* lines 346-422, one file record (the records are unpacked in parallel, in
\* any order): create or truncate, decode into it, check the hash of the
\* compressed bytes, restore permissions and times
ExtractFile(p, i) ==
  /\ pc[p] = "xfiles"
  /\ i \in loc[p].filesLeft
  /\ LET d == loc[p].dir
         rec == Payload.files[i]
         at == OpenForWrite(fs[d], d, RelPath(rec), LinkFuel)
         left == loc[p].filesLeft \ {i}
     IN  IF at = <<>>
           THEN /\ Panic(p)
                /\ UNCHANGED <<fs, touched, loc>>
           ELSE /\ fs' = [fs EXCEPT ![d].nodes[at] =
                                 FileNode(Decode(Content(pkgOf[p], i)))]
                /\ touched' = [touched EXCEPT ![p] = @ \cup {at}]
                /\ IF ~HashMatches(Content(pkgOf[p], i), rec.compressed_hash)
                     THEN /\ Panic(p)
                          /\ loc' = loc
                     ELSE /\ loc' = [loc EXCEPT ![p].filesLeft = left]
                          /\ pc' = [pc EXCEPT ![p] = Stage(left, loc[p].linksLeft)]
                          /\ lock' = lock
  /\ UNCHANGED <<recVars, locVars, sideVars, platform, pkgOf, info, launches, tampers>>

\* remove_dir(path): an empty directory; on windows also a directory symlink
CanRemoveDir(f, d, rel) ==
  LET n == f.nodes[rel]
  IN  \/ n.kind = "dir" /\ ~HasChildren(f, rel)
      \/ /\ n.kind = "link"
         /\ platform = "windows"
         /\ Resolve(f, d, rel, LinkFuel).kind = "dir"

\* remove_file(path): a file or a symlink; on windows not a directory symlink
CanRemoveFile(f, d, rel) ==
  LET n == f.nodes[rel]
  IN  \/ n.kind = "file"
      \/ /\ n.kind = "link"
         /\ platform = "windows" => Resolve(f, d, rel, LinkFuel).kind # "dir"

\* lines 434-515, one symlink record (in parallel, in any order): remove what
\* exists at the path, then create the link
ExtractLink(p, j) ==
  /\ pc[p] = "xlinks"
  /\ j \in loc[p].linksLeft
  /\ LET d == loc[p].dir
         rec == Symlinks(pkgOf[p])[j]
         rel == RelPath(rec)
         f == fs[d]
         there == PathExists(f, d, rel)
         removable == IF rec.kind = 0 THEN CanRemoveDir(f, d, rel)
                      ELSE CanRemoveFile(f, d, rel)
         f1 == IF there /\ removable THEN [f EXCEPT !.nodes[rel] = Absent] ELSE f
         target == IF rec.kind = 0 THEN d \o Directories[rec.target + 1]
                   ELSE d \o RelPath(Payload.files[rec.target + 1])
         left == loc[p].linksLeft \ {j}
     IN  IF there /\ ~removable
           THEN \* "failed to remove existing symlink"
                /\ Panic(p)
                /\ UNCHANGED <<fs, touched, loc>>
           ELSE IF f1.nodes[rel].kind # "absent" \/ ~ParentIsDir(f1, d, rel)
           THEN \* "failed to create symlink"
                /\ Panic(p)
                /\ fs' = [fs EXCEPT ![d] = f1]
                /\ touched' = [touched EXCEPT ![p] =
                                 IF there THEN @ \cup {rel} ELSE @]
                /\ loc' = loc
           ELSE /\ fs' = [fs EXCEPT ![d] = [f1 EXCEPT !.nodes[rel] = LinkNode(target)]]
                /\ touched' = [touched EXCEPT ![p] = @ \cup {rel}]
                /\ loc' = [loc EXCEPT ![p].linksLeft = left]
                /\ pc' = [pc EXCEPT ![p] = Stage({}, left)]
                /\ lock' = lock
  /\ UNCHANGED <<recVars, locVars, sideVars, platform, pkgOf, info, launches, tampers>>

\* line 518
SetVersion(p) ==
  /\ pc[p] = "setver"
  /\ fs' = [fs EXCEPT ![loc[p].dir] = set_version(@, info[p].version)]
  /\ touched' = [touched EXCEPT ![p] = @ \cup {MarkSentinel}]
  /\ loc' = [loc EXCEPT ![p].extracted = TRUE]
  /\ pc' = [pc EXCEPT ![p] = "dret"]
  /\ UNCHANGED <<recVars, locVars, sideVars, platform, pkgOf, info, lock, launches, tampers>>

\* a return that writes the sentinel whether or not anything was extracted
EngineReturnSetsVersion(p) ==
  /\ pc[p] = "dret"
  /\ lock' = Unlocked(p, "engine", loc[p].dir)
  /\ fs' = [fs EXCEPT ![loc[p].dir] = set_version(@, info[p].version)]
  /\ touched' = [touched EXCEPT ![p] = @ \cup {MarkSentinel}]
  /\ pc' = [pc EXCEPT ![p] = "unlock"]
  /\ UNCHANGED <<recVars, locVars, sideVars, platform, pkgOf, info, loc, launches, tampers>>

\* line 529 and main.rs lines 274-283: decompress returns, its lock file handle
\* is dropped; set_executable_permissions(run_path) after an extraction
EngineReturn(p) ==
  /\ pc[p] = "dret"
  /\ lock' = Unlocked(p, "engine", loc[p].dir)
  /\ pc' = [pc EXCEPT ![p] = "unlock"]
  /\ UNCHANGED <<recVars, locVars, sideVars, platform, pkgOf, info, loc, fs, touched, launches, tampers>>

(***************************************************************************)
(* Runner bootstrap, after the engine: main.rs lines 285-359               *)
(***************************************************************************)
\* a bootstrap that goes on to the spawn with its guard alive
DropLockKept(p) ==
  /\ pc[p] = "unlock"
  /\ lock' = lock
  /\ pc' = [pc EXCEPT ![p] = "spawn"]
  /\ UNCHANGED <<recVars, locVars, sideVars, platform, pkgOf, info, loc, fs, touched, launches, tampers>>

\* line 285
DropLock(p) ==
  /\ pc[p] = "unlock"
  /\ lock' = Unlocked(p, "guard", loc[p].dir)
  /\ pc' = [pc EXCEPT ![p] = "spawn"]
  /\ UNCHANGED <<recVars, locVars, sideVars, platform, pkgOf, info, loc, fs, touched, launches, tampers>>

\* lines 332-359: exec (unix) or spawn (windows) of run_path; it fails when
\* run_path is no file
Spawn(p) ==
  /\ pc[p] = "spawn"
  /\ IF PathIsFile(fs[loc[p].dir], loc[p].dir, <<info[p].command_name>>)
       THEN /\ pc' = [pc EXCEPT ![p] = "running"]
            /\ lock' = lock
       ELSE Panic(p)
  /\ UNCHANGED <<recVars, locVars, sideVars, platform, pkgOf, info, loc, fs, touched, launches, tampers>>

\* the entry command ends
CommandExit(p) ==
  /\ pc[p] = "running"
  /\ pc' = [pc EXCEPT ![p] = "done"]
  /\ UNCHANGED <<recVars, locVars, sideVars, platform, pkgOf, info, loc, lock, fs, touched, launches, tampers>>

\* the user starts the package again
Again(p) ==
  /\ pc[p] \in {"done", "fatal", "exited"}
  /\ launches < MaxLaunches
  /\ pc' = [pc EXCEPT ![p] = "idle"]
  /\ info' = [info EXCEPT ![p] = NoInfo]
  /\ loc' = [loc EXCEPT ![p] = NoLoc]
  /\ touched' = [touched EXCEPT ![p] = {}]
  /\ UNCHANGED <<recVars, locVars, sideVars, platform, pkgOf, lock, fs, launches, tampers>>

(***************************************************************************)
(* The environment between runs: an extracted file is deleted or changed   *)
(***************************************************************************)
Quiet == \A p \in Procs : Ended(p)

DeleteFile(d, i) ==
  /\ Quiet
  /\ tampers < MaxTampers
  /\ fs[d].nodes[RelPath(Payload.files[i])].kind = "file"
  /\ fs' = [fs EXCEPT ![d].nodes[RelPath(Payload.files[i])] = Absent]
  /\ tampers' = tampers + 1
  /\ UNCHANGED <<recVars, locVars, sideVars, platform, pkgOf, pc, info, loc, lock, touched, launches>>

CorruptFile(d, i) ==
  /\ Quiet
  /\ tampers < MaxTampers
  /\ fs[d].nodes[RelPath(Payload.files[i])].kind = "file"
  /\ fs' = [fs EXCEPT ![d].nodes[RelPath(Payload.files[i])].content = @ + 1]
  /\ tampers' = tampers + 1
  /\ UNCHANGED <<recVars, locVars, sideVars, platform, pkgOf, pc, info, loc, lock, touched, launches>>

\* a place outside of every unpack directory
OutsidePath == <<TempDir, Str(120)>>

\* what may be put in the place of an extracted symlink of directory d:
\* nothing, a regular file, a link to another node of the tree, a link to
\* the outside
LinkTampers(d) ==
  {Absent, FileNode(1), LinkNode(OutsidePath)}
    \cup {LinkNode(d \o q) : q \in NodePaths}

TamperLink(d, j, n) ==
  /\ Quiet
  /\ tampers < MaxTampers
  /\ fs[d].nodes[RelPath(Payload.links[j])].kind = "link"
  /\ fs[d].nodes[RelPath(Payload.links[j])] # n
  /\ fs' = [fs EXCEPT ![d].nodes[RelPath(Payload.links[j])] = n]
  /\ tampers' = tampers + 1
  /\ UNCHANGED <<recVars, locVars, sideVars, platform, pkgOf, pc, info, loc, lock, touched, launches>>

\* the content of a file that was created or truncated and not written to
\* the end
Torn == 0

\* the launch is ended from outside (or the machine stops) somewhere in its
\* extract pass; inside the file pass this may be between the truncating open
\* of record i (decompress.rs lines 353-361) and the end of the copy (line 369)
Kill(p) ==
  /\ pc[p] \in {"xdirs", "xfiles", "xlinks", "setver"}
  /\ pc' = [pc EXCEPT ![p] = "fatal"]
  /\ lock' = ProcessGone(p)
  /\ \/ UNCHANGED <<fs, touched>>
     \/ /\ pc[p] = "xfiles"
        /\ \E i \in loc[p].filesLeft :
             LET d == loc[p].dir
                 at == OpenForWrite(fs[d], d, RelPath(Payload.files[i]), LinkFuel)
             IN  /\ at # <<>>
                 /\ fs' = [fs EXCEPT ![d].nodes[at] = FileNode(Torn)]
                 /\ touched' = [touched EXCEPT ![p] = @ \cup {at}]
  /\ UNCHANGED <<recVars, locVars, sideVars, platform, pkgOf, info, loc, launches, tampers>>

(***************************************************************************)
(* Baked and forwarded arguments: src/args.rs get_arguments and            *)
(* startpe/src/main.rs lines 287-334                                       *)
(***************************************************************************)
\* the unit separator "\u{1f}"
SEP == 31

\* the characters str::trim removes (ASCII part of White_Space)
WhiteSpace == {9, 10, 11, 12, 13, 32}

\* arguments.join("\u{1f}")
RECURSIVE Join(_, _)
Join(list, sep) ==
  IF list = <<>> THEN <<>>
  ELSE IF Len(list) = 1 THEN list[1]
  ELSE list[1] \o <<sep>> \o Join(Tail(list), sep)

\* args.rs lines 372-386: the arguments field, or an exit when the joined
\* list does not fit
get_arguments(arguments) ==
  LET joined == Join(arguments, SEP)
  IN  IF Len(joined) >= ARGS_SIZE THEN [ok |-> FALSE, bytes |-> <<>>]
      ELSE [ok |-> TRUE, bytes |-> PadTo(joined, ARGS_SIZE)]

\* str::split(sep): the pieces between the separators, at least one
Split(bytes, sep) ==
  LET at == {i \in 1..Len(bytes) : bytes[i] = sep}
      Cut(k) == IF k = 0 THEN 0
                ELSE IF k > Cardinality(at) THEN Len(bytes) + 1
                ELSE CHOOSE i \in at : Cardinality({j \in at : j < i}) = k - 1
  IN  [k \in 1..(Cardinality(at) + 1) |->
         SubSeq(bytes, Cut(k - 1) + 1, Cut(k) - 1)]

RECURSIVE TrimStart(_)
TrimStart(str) ==
  IF str # <<>> /\ Head(str) \in WhiteSpace THEN TrimStart(Tail(str)) ELSE str

RECURSIVE TrimEnd(_)
TrimEnd(str) ==
  IF str # <<>> /\ str[Len(str)] \in WhiteSpace
    THEN TrimEnd(SubSeq(str, 1, Len(str) - 1))
    ELSE str

\* str::trim
Trim(str) == TrimEnd(TrimStart(str))

\* a parse that splits and keeps every piece as it is
BakedArgumentsSplitOnly(arguments) == Split(CStr(arguments), SEP)

\* main.rs lines 287-302: the bytes up to the first NUL, split on the
\* separator, every piece trimmed, the empty pieces left out
BakedArguments(arguments) ==
  LET pieces == Split(CStr(arguments), SEP)
      NonEmpty(arg) == arg # <<>>
  IN  SelectSeq([i \in 1..Len(pieces) |-> Trim(pieces[i])], NonEmpty)

\* a forwarding that keeps argv[0]
ForwardedAll(args) == args

\* main.rs line 304: std::env::args().skip(1)
Forwarded(args) == IF args = <<>> THEN <<>> ELSE Tail(args)

\* Command::args: the arguments are appended to those already set
CommandArgs(command, args) == command \o args

MaxArgs == 2

\* an argument that fills the arguments field
LongArg == [i \in 1..ARGS_SIZE |-> 120]

\* "x", "y", " x", "", "x y"
BakedStrings == {<<120>>, <<121>>, <<32, 120>>, <<>>, <<120, 32, 121>>}

\* "z", "", " z"
ForwardedStrings == {<<122>>, <<>>, <<32, 122>>}

BakedLists ==
  UNION {[1..n -> BakedStrings] : n \in 0..MaxArgs}
    \cup {<<LongArg>>, <<SubSeq(LongArg, 1, ARGS_SIZE - 1)>>}

ProcessArgs ==
  {<<Str(101)>> \o l : l \in UNION {[1..n -> ForwardedStrings] : n \in 0..MaxArgs}}

ArgIdle ==
  /\ argList = <<>>
  /\ argStored = <<>>
  /\ procArgs = <<>>
  /\ argv = <<>>
  /\ argPc = "idle"

ArgInit ==
  /\ argList \in BakedLists
  /\ procArgs \in ProcessArgs
  /\ argStored = <<>>
  /\ argv = <<>>
  /\ argPc = "pack"

\* the packer stores the arguments (main.rs of the packer, lines 126-127, 385)
Bake ==
  /\ argPc = "pack"
  /\ LET r == get_arguments(argList)
     IN  /\ argStored' = r.bytes
         /\ argPc' = IF r.ok THEN "launch" ELSE "refused"
  /\ UNCHANGED <<argList, procArgs, argv, recVars, locVars, runVars, secVars, appVars, packVars, waitVars>>

\* the runner starts the command: main.rs lines 287-304 and 332-334
Launch ==
  /\ argPc = "launch"
  /\ argv' = CommandArgs(CommandArgs(<<>>, BakedArguments(argStored)),
                         Forwarded(procArgs))
  /\ argPc' = "started"
  /\ UNCHANGED <<argList, argStored, procArgs, recVars, locVars, runVars, secVars, appVars, packVars, waitVars>>

SecIdle ==
  /\ secPkg = <<>>
  /\ secResult = NotRead

SecInit ==
  /\ secPkg \in AllPackages
  /\ secResult = NotRead

\* decompress is called on the package file
Sections ==
  /\ secResult = NotRead
  /\ secResult' = OpenSections(secPkg)
  /\ UNCHANGED <<secPkg, recVars, locVars, runVars, argVars, appVars, packVars, waitVars>>

(***************************************************************************)
(* The packer's parallel append: src/compress.rs lines 221-428, 579-606    *)
(***************************************************************************)
NumFiles == 3

MaxStream == 2

\* one worker of the parallel iterator per file
Workers == 1..NumFiles

\* what the output holds when compress is called: the runner image; a byte
\* is written as <<file, index>>, file 0 for bytes that belong to no file
RunnerImage == << <<0, 1>>, <<0, 2>> >>

\* target.stream_position() at line 221
Zero == Len(RunnerImage)

NotWritten == 0 - 1

AppIdle ==
  /\ archive = <<>>
  /\ arcLock = 0
  /\ wpc = <<>>
  /\ wdata = <<>>
  /\ wsent = <<>>
  /\ wstart = <<>>
  /\ wend = <<>>
  /\ files = <<>>
  /\ payloadSize = NotWritten

AppInit ==
  /\ archive = RunnerImage
  /\ arcLock = 0
  /\ wpc = [w \in Workers |-> "open"]
  /\ wdata = [w \in Workers |-> <<>>]
  /\ wsent = [w \in Workers |-> 0]
  /\ wstart = [w \in Workers |-> 0]
  /\ wend = [w \in Workers |-> 0]
  /\ files = <<>>
  /\ payloadSize = NotWritten

\* lines 280-302: copy_encode of the file into data; a file that cannot be
\* compressed is skipped
CopyEncode(w) ==
  /\ wpc[w] = "open"
  /\ \/ \E n \in 1..MaxStream :
          /\ wdata' = [wdata EXCEPT ![w] = [k \in 1..n |-> <<w, k>>]]
          /\ wpc' = [wpc EXCEPT ![w] = "encoded"]
     \/ /\ wdata' = wdata
        /\ wpc' = [wpc EXCEPT ![w] = "skipped"]
  /\ UNCHANGED <<archive, arcLock, wsent, wstart, wend, files, payloadSize, recVars, locVars, runVars, argVars, secVars, packVars, waitVars>>

\* a mutex that excludes nobody
CanLockArchiveAlways(w) == TRUE

\* archive.lock() returns
CanLockArchive(w) == arcLock = 0

\* lines 304-306 (354-357 for a file compressed to disk): the mutex of the
\* output is taken, start is the position
LockArchive(w) ==
  /\ wpc[w] = "encoded"
  /\ CanLockArchive(w)
  /\ arcLock' = w
  /\ wstart' = [wstart EXCEPT ![w] = Len(archive)]
  /\ wpc' = [wpc EXCEPT ![w] = "copy"]
  /\ UNCHANGED <<archive, wdata, wsent, wend, files, payloadSize, recVars, locVars, runVars, argVars, secVars, packVars, waitVars>>

\* lines 307-309 (358): copy writes the next piece of data at the end of the
\* output
CopyPiece(w) ==
  /\ wpc[w] = "copy"
  /\ wsent[w] < Len(wdata[w])
  /\ archive' = Append(archive, wdata[w][wsent[w] + 1])
  /\ wsent' = [wsent EXCEPT ![w] = @ + 1]
  /\ UNCHANGED <<arcLock, wpc, wdata, wstart, wend, files, payloadSize, recVars, locVars, runVars, argVars, secVars, packVars, waitVars>>

\* lines 309-316: copy fails; the worker returns without a record and the
\* mutex is released
CopyFails(w) ==
  /\ wpc[w] = "copy"
  /\ wsent[w] < Len(wdata[w])
  /\ arcLock' = IF arcLock = w THEN 0 ELSE arcLock
  /\ wpc' = [wpc EXCEPT ![w] = "skipped"]
  /\ UNCHANGED <<archive, wdata, wsent, wstart, wend, files, payloadSize, recVars, locVars, runVars, argVars, secVars, packVars, waitVars>>

\* lines 317-319 (359-360): end is the position after the copy; the mutex is
\* released at the end of the block
UnlockArchive(w) ==
  /\ wpc[w] = "copy"
  /\ wsent[w] = Len(wdata[w])
  /\ wend' = [wend EXCEPT ![w] = Len(archive)]
  /\ arcLock' = IF arcLock = w THEN 0 ELSE arcLock
  /\ wpc' = [wpc EXCEPT ![w] = "header"]
  /\ UNCHANGED <<archive, wdata, wsent, wstart, files, payloadSize, recVars, locVars, runVars, argVars, secVars, packVars, waitVars>>

\* lines 380-393 and 416-418: the file record, pushed under the mutex of the
\* record list
PushHeader(w) ==
  /\ wpc[w] = "header"
  /\ files' = Append(files, [file |-> w, position |-> wstart[w] - Zero,
                             size |-> wend[w] - wstart[w]])
  /\ wpc' = [wpc EXCEPT ![w] = "done"]
  /\ UNCHANGED <<archive, arcLock, wdata, wsent, wstart, wend, payloadSize, recVars, locVars, runVars, argVars, secVars, packVars, waitVars>>

\* lines 579-580 and 598-606: after the parallel iterator has ended,
\* payload_size is the distance of the position from zero
WriteTrailer ==
  /\ payloadSize = NotWritten
  /\ \A w \in Workers : wpc[w] \in {"done", "skipped"}
  /\ payloadSize' = Len(archive) - Zero
  /\ UNCHANGED <<archive, arcLock, wpc, wdata, wsent, wstart, wend, files, recVars, locVars, runVars, argVars, secVars, packVars, waitVars>>

(***************************************************************************)
(* The packer's passes over the source tree: src/compress.rs lines 93-110  *)
(* (walk), 163-219 (directories), 230-428 (files), 433-577 (symlinkRecs) and  *)
(* 599-607 (counts of the trailer)                                         *)
(***************************************************************************)
\* a basename of n bytes
Name(c, n) == [i \in 1..n |-> c]

\* Path::file_name and Path::parent of a path given by its components
FileName(path) == path[Len(path)]

ParentOf(path) == SubSeq(path, 1, Len(path) - 1)

\* to_slash: the components joined with "/"
ToSlash(path) == Join(path, 47)

\* the canonical path of the source directory, and a directory next to it
SourceRoot == <<Str(115)>>

Elsewhere == <<Str(111)>>

\* a prefix test that compares nothing
StripPrefixByLength(path, base) ==
  [ok |-> Len(base) <= Len(path),
   rel |-> SubSeq(path, Len(base) + 1, Len(path))]

\* Path::strip_prefix: the components after base, when base is a prefix
StripPrefix(path, base) ==
  [ok |-> IsPrefix(base, path),
   rel |-> IF IsPrefix(base, path) THEN SubSeq(path, Len(base) + 1, Len(path))
           ELSE <<>>]

\* iter().position(|element| element == x): the first index, from 0
Position(list, x) ==
  LET at == {i \in 1..Len(list) : list[i] = x}
  IN  IF at = {} THEN NotFound ELSE MinOf(at) - 1

\* an entry of the walk: its path below the source directory, its file
\* type, whether it is the excluded path, what File::open and the read of
\* copy_encode do, and what the link resolves to
NoLink == [status |-> "none", to |-> <<>>]

Entry(p, t, x, o, l) == [path |-> p, type |-> t, excluded |-> x, io |-> o, link |-> l]

\* the canonical paths a link may resolve to: the source directory, a
\* directory or a file below it, a directory outside of it, or nothing
LinkChoices ==
  {"root", "b", "c", "d", "k", "f", "outside", "dangling"}

NameChoices ==
  {<<w, n>> : w \in {"a", "k", "l"}, n \in {1, NAME_SIZE - 1, NAME_SIZE, NAME_SIZE + 1}}

ExcludeChoices == {"none", "a", "k"}

IoChoices == {"ok", "open", "read"}

\* the walk of a source tree, sorted, directories before their content:
\*   a/  a/b/  a/b/c/  a/b/c/f  a/b/g  a/h  d/  d/k  d/l -> ..
\* one basename has the length nm[2], one path is the excluded one, file k
\* opens and reads or not, and link l resolves to lk
Walk(nm, ex, o, lk) ==
  LET a == Name(97, IF nm[1] = "a" THEN nm[2] ELSE 1)
      k == Name(107, IF nm[1] = "k" THEN nm[2] ELSE 1)
      l == Name(108, IF nm[1] = "l" THEN nm[2] ELSE 1)
      b == Str(98)
      c == Str(99)
      d == Str(100)
      to == CASE lk = "root" -> SourceRoot
               [] lk = "b" -> SourceRoot \o <<a, b>>
               [] lk = "c" -> SourceRoot \o <<a, b, c>>
               [] lk = "d" -> SourceRoot \o <<d>>
               [] lk = "k" -> SourceRoot \o <<d, k>>
               [] lk = "f" -> SourceRoot \o <<a, b, c, Str(102)>>
               [] lk = "outside" -> Elsewhere \o <<d>>
               [] OTHER -> <<>>
  IN  << Entry(<<>>, "dir", FALSE, "ok", NoLink),
         Entry(<<a>>, "dir", ex = "a", "ok", NoLink),
         Entry(<<a, b>>, "dir", FALSE, "ok", NoLink),
         Entry(<<a, b, c>>, "dir", FALSE, "ok", NoLink),
         Entry(<<a, b, c, Str(102)>>, "file", FALSE, "ok", NoLink),
         Entry(<<a, b, Str(103)>>, "file", FALSE, "ok", NoLink),
         Entry(<<a, Str(104)>>, "file", FALSE, "ok", NoLink),
         Entry(<<d>>, "dir", FALSE, "ok", NoLink),
         Entry(<<d, k>>, "file", ex = "k", o, NoLink),
         Entry(<<d, l>>, "symlink", FALSE, "ok",
               [status |-> IF lk = "dangling" THEN "dangling" ELSE "resolved",
                to |-> to]) >>

Walks ==
  {Walk(nm, ex, o, lk) :
     nm \in NameChoices, ex \in ExcludeChoices, o \in IoChoices, lk \in LinkChoices}

NoTrailer == [written |-> FALSE, directory_sections |-> 0, file_sections |-> 0,
              symlink_sections |-> 0]

PackIdle ==
  /\ entries = <<>>
  /\ walked = 0
  /\ passed = {}
  /\ parents = <<>>
  /\ directories = <<>>
  /\ headers = <<>>
  /\ links = <<>>
  /\ pushing = {}
  /\ symlinkRecs = <<>>
  /\ errors = {}
  /\ trailer = NoTrailer

\* lines 93-104 and 163-165: the walk is collected, parents starts with the
\* source directory as parent 0
PackInit ==
  /\ entries \in Walks
  /\ walked = 0
  /\ passed = {}
  /\ parents = <<<<>>>>
  /\ directories = <<>>
  /\ headers = <<>>
  /\ links = <<>>
  /\ pushing = {}
  /\ symlinkRecs = <<>>
  /\ errors = {}
  /\ trailer = NoTrailer

\* error_callback for entry i
Report(i, why) == errors' = errors \cup {<<i, why>>}

\* lines 168-219: the directory pass handles the next entry of the walk
DirectoryPass ==
  /\ walked < Len(entries)
  /\ walked' = walked + 1
  /\ LET i == walked + 1
         entry == entries[i]
         pushed == Append(parents, ToSlash(entry.path))
         parent == Position(pushed, ToSlash(ParentOf(entry.path)))
     IN  IF entry.type # "dir" THEN UNCHANGED <<parents, directories, errors>>
         ELSE IF entry.excluded
           THEN /\ Report(i, "skipping excluded file")
                /\ UNCHANGED <<parents, directories>>
         ELSE IF entry.path = <<>>
           THEN UNCHANGED <<parents, directories, errors>>
         ELSE IF Len(FileName(entry.path)) > PACKER_NAME_SIZE
           THEN /\ Report(i, "skipping directory with name longer than")
                /\ UNCHANGED <<parents, directories>>
         ELSE /\ parents' = pushed
              /\ IF parent = NotFound
                   THEN /\ Report(i, "skipping directory with no included parent")
                        /\ UNCHANGED directories
                   ELSE /\ directories' =
                             Append(directories,
                                    [name |-> PadTo(FileName(entry.path), PACKER_NAME_SIZE),
                                     parent |-> parent, entry |-> i])
                        /\ UNCHANGED errors
  /\ UNCHANGED <<entries, passed, headers, links, pushing, symlinkRecs, trailer>>
  /\ UNCHANGED <<recVars, locVars, runVars, argVars, secVars, appVars, waitVars>>

\* the entries of a file type
OfType(t) == {i \in 1..Len(entries) : entries[i].type = t}

\* a mutex that excludes nobody
CanLockFilesAlways == TRUE

\* files.lock() at line 416 returns: no other worker holds the mutex
CanLockFiles == pushing = {}

\* lines 230-418: one closure of the parallel file pass, up to files.push
\* under the mutex of files
FilePass(i) ==
  /\ walked = Len(entries)
  /\ i \in OfType("file") \ passed
  /\ passed' = passed \cup {i}
  /\ LET entry == entries[i]
         parent == Position(parents, ToSlash(ParentOf(entry.path)))
     IN  IF entry.excluded
           THEN /\ Report(i, "skipping excluded file")
                /\ UNCHANGED <<headers, pushing>>
         ELSE IF Len(FileName(entry.path)) > PACKER_NAME_SIZE
           THEN /\ Report(i, "skipping file with name longer than")
                /\ UNCHANGED <<headers, pushing>>
         ELSE IF parent = NotFound
           THEN /\ Report(i, "skipping file with no included parent")
                /\ UNCHANGED <<headers, pushing>>
         ELSE IF entry.io = "open"
           THEN /\ Report(i, "couldn't open")
                /\ UNCHANGED <<headers, pushing>>
         ELSE IF entry.io = "read"
           THEN /\ Report(i, "couldn't compress")
                /\ UNCHANGED <<headers, pushing>>
         ELSE /\ CanLockFiles
              /\ headers' =
                   Append(headers,
                          [name |-> PadTo(FileName(entry.path), PACKER_NAME_SIZE),
                           parent |-> parent, entry |-> i])
              /\ pushing' = pushing \cup {i}
              /\ UNCHANGED errors
  /\ UNCHANGED <<entries, walked, parents, directories, links, symlinkRecs, trailer>>
  /\ UNCHANGED <<recVars, locVars, runVars, argVars, secVars, appVars, waitVars>>

\* lines 419-423: links.push of the same closure, then the mutex of files is
\* released
PushLink(i) ==
  /\ i \in pushing
  /\ links' = Append(links, ToSlash(entries[i].path))
  /\ pushing' = pushing \ {i}
  /\ UNCHANGED <<entries, walked, passed, parents, directories, headers,
                 symlinkRecs, errors, trailer>>
  /\ UNCHANGED <<recVars, locVars, runVars, argVars, secVars, appVars, waitVars>>

\* a symlink pass that starts as soon as the directory pass has ended
FilePassNotAwaited == walked = Len(entries)

\* the parallel file pass has ended (.count() at line 428 has returned)
FilePassDone ==
  /\ walked = Len(entries)
  /\ OfType("file") \subseteq passed
  /\ pushing = {}

\* the type of the entry at a path below the source directory
TypeAt(rel) ==
  IF rel = <<>> THEN "dir"
  ELSE LET at == {i \in 1..Len(entries) : entries[i].path = rel}
       IN  IF at = {} THEN "none" ELSE entries[CHOOSE i \in at : TRUE].type

\* lines 433-577: one closure of the parallel symlink pass
SymlinkPass(i) ==
  /\ FilePassDone
  /\ i \in OfType("symlink") \ passed
  /\ passed' = passed \cup {i}
  /\ LET entry == entries[i]
         parent == Position(parents, ToSlash(ParentOf(entry.path)))
         link == StripPrefix(entry.link.to, SourceRoot)
         is_file == TypeAt(StripPrefix(entry.link.to, SourceRoot).rel) = "file"
                      /\ IsPrefix(SourceRoot, entry.link.to)
         target == IF is_file THEN Position(links, ToSlash(link.rel))
                   ELSE Position(parents, ToSlash(link.rel))
     IN  IF entry.excluded
           THEN /\ Report(i, "skipping excluded file")
                /\ UNCHANGED symlinkRecs
         ELSE IF Len(FileName(entry.path)) > PACKER_NAME_SIZE
           THEN /\ Report(i, "skipping file with name longer than")
                /\ UNCHANGED symlinkRecs
         ELSE IF parent = NotFound
           THEN /\ Report(i, "skipping file with no included parent")
                /\ UNCHANGED symlinkRecs
         ELSE IF entry.link.status = "dangling"
           THEN /\ Report(i, "link could not be canonicalized")
                /\ UNCHANGED symlinkRecs
         ELSE IF ~link.ok
           THEN /\ Report(i, "link points to outside the directory")
                /\ UNCHANGED symlinkRecs
         ELSE IF target = NotFound
           THEN /\ Report(i, "skipping link with no included target")
                /\ UNCHANGED symlinkRecs
         ELSE /\ symlinkRecs' =
                   Append(symlinkRecs,
                          [name |-> PadTo(FileName(entry.path), PACKER_NAME_SIZE),
                           parent |-> parent,
                           kind |-> IF is_file THEN 1 ELSE 0,
                           target |-> target, entry |-> i])
              /\ UNCHANGED errors
  /\ UNCHANGED <<entries, walked, parents, directories, headers, links, pushing,
                 trailer>>
  /\ UNCHANGED <<recVars, locVars, runVars, argVars, secVars, appVars, waitVars>>

\* lines 579-608: the records are written and the payload header counts them
WritePayloadHeader ==
  /\ FilePassDone
  /\ OfType("symlink") \subseteq passed
  /\ ~trailer.written
  /\ trailer' = [written |-> TRUE, directory_sections |-> Len(directories),
                 file_sections |-> Len(headers),
                 symlink_sections |-> Len(symlinkRecs)]
  /\ UNCHANGED <<entries, walked, passed, parents, directories, headers, links,
                 pushing, symlinkRecs, errors>>
  /\ UNCHANGED <<recVars, locVars, runVars, argVars, secVars, appVars, waitVars>>

(***************************************************************************)
(* The closure of one symlink record: startpe/src/decompress.rs lines      *)
(* 434-515                                                                 *)
(***************************************************************************)
\* what there may be at the path of a symlink record when its closure
\* begins: nothing, a symlink that resolves, a symlink that does not, a
\* regular file, an empty directory, a directory with content; "lingering"
\* is a name that was removed and is still there
NodeKinds == {"absent", "link", "dangling", "file", "dir", "full"}

\* Path::exists: the path resolves to something
Exists(n) == n \notin {"absent", "dangling"}

\* remove_dir (kind 0) or remove_file (kind 1) succeeds
Removable(kind, n) ==
  IF kind = 0 THEN n = "dir" \/ (n = "link" /\ platform = "windows")
  ELSE n \in {"file", "link", "dangling"}

Closures == 1..Len(SourceLinks)

WaitIdle ==
  /\ lpc = [j \in Closures |-> "idle"]
  /\ lnode = [j \in Closures |-> "absent"]

WaitInit ==
  /\ lpc = [j \in Closures |-> "check"]
  /\ lnode \in [Closures -> NodeKinds]

\* lines 441 and 471: if path.exists()
LinkCheck(j) ==
  /\ lpc[j] = "check"
  /\ lpc' = [lpc EXCEPT ![j] = IF Exists(lnode[j]) THEN "remove" ELSE "wait"]
  /\ UNCHANGED <<lnode, recVars, locVars, runVars, argVars, secVars, appVars, packVars>>

\* lines 442-448 and 472-478: remove_dir or remove_file, a panic when it
\* fails; after it the name is gone, or is still there for a while
LinkRemove(j) ==
  /\ lpc[j] = "remove"
  /\ IF Removable(SourceLinks[j].kind, lnode[j])
       THEN /\ lpc' = [lpc EXCEPT ![j] = "wait"]
            /\ \E n \in {"absent", "lingering"} : lnode' = [lnode EXCEPT ![j] = n]
       ELSE /\ lpc' = [lpc EXCEPT ![j] = "fatal"]
            /\ lnode' = lnode
  /\ UNCHANGED <<recVars, locVars, runVars, argVars, secVars, appVars, packVars>>

\* lines 450 and 480: while path.exists()
LinkPoll(j) ==
  /\ lpc[j] = "wait"
  /\ lpc' = [lpc EXCEPT ![j] = IF Exists(lnode[j]) THEN "sleep" ELSE "create"]
  /\ UNCHANGED <<lnode, recVars, locVars, runVars, argVars, secVars, appVars, packVars>>

\* lines 451 and 481: sleep(Duration::from_millis(20)), then the test again
LinkSleep(j) ==
  /\ lpc[j] = "sleep"
  /\ lpc' = [lpc EXCEPT ![j] = "wait"]
  /\ UNCHANGED <<lnode, recVars, locVars, runVars, argVars, secVars, appVars, packVars>>

\* lines 453-467 and 483-497: symlink(target, path), a panic when it fails
LinkCreate(j) ==
  /\ lpc[j] = "create"
  /\ IF lnode[j] = "absent"
       THEN /\ lpc' = [lpc EXCEPT ![j] = "done"]
            /\ lnode' = [lnode EXCEPT ![j] = "link"]
       ELSE /\ lpc' = [lpc EXCEPT ![j] = "fatal"]
            /\ lnode' = lnode
  /\ UNCHANGED <<recVars, locVars, runVars, argVars, secVars, appVars, packVars>>

\* the file system lets go of a removed name
Released(j) ==
  /\ lnode[j] = "lingering"
  /\ lnode' = [lnode EXCEPT ![j] = "absent"]
  /\ UNCHANGED <<lpc, recVars, locVars, runVars, argVars, secVars, appVars, packVars>>

(***************************************************************************)
(* Specification of the launches                                           *)
(***************************************************************************)
RecIdle ==
  /\ recKind = "StarterInfo"
  /\ recVal = <<>>
  /\ recBytes = <<>>
  /\ recParsed = Pending

NotLocated == [status |-> "pending", reason |-> "", info_start |-> NotFound]

LocIdle ==
  /\ mmap = <<>>
  /\ located = NotLocated

RunStart ==
  /\ pc = [p \in Procs |-> "idle"]
  /\ info = [p \in Procs |-> NoInfo]
  /\ loc = [p \in Procs |-> NoLoc]
  /\ lock = [d \in UnpackDirs |-> Free]
  /\ fs = [d \in UnpackDirs |-> EmptyDir]
  /\ touched = [p \in Procs |-> {}]
  /\ launches = 0
  /\ tampers = 0

RunInit ==
  /\ platform \in Platforms
  /\ pkgOf \in [Procs -> AllPackages]
  /\ \A p \in Procs : pkgOf[p] \in {pkgOf[1], OtherUid(pkgOf[1])}
  /\ RunStart

\* no launch: the state of the launches while a pure function is examined
RunIdle ==
  /\ platform = "unix"
  /\ pkgOf = [p \in Procs |-> Pkg("format", Signature, WRAPPE_FORMAT, UidA, 0, 0, 0, <<>>)]
  /\ RunStart

Init == RecIdle /\ LocIdle /\ RunInit /\ ArgIdle /\ SecIdle /\ AppIdle /\ PackIdle /\ WaitIdle

ProcStep(p) ==
  \/ Start(p)
  \/ MkDir(p)
  \/ LockGuard(p)
  \/ OnceCheck(p)
  \/ Decide(p)
  \/ EngineLock(p)
  \/ Verify(p)
  \/ ExtractDirs(p)
  \/ \E i \in 1..Len(Payload.files) : ExtractFile(p, i)
  \/ \E j \in 1..Len(Payload.links) : ExtractLink(p, j)
  \/ SetVersion(p)
  \/ EngineReturn(p)
  \/ DropLock(p)
  \/ Spawn(p)
  \/ CommandExit(p)
  \/ Again(p)

Tamper ==
  \E d \in UnpackDirs, i \in 1..Len(Payload.files) :
    DeleteFile(d, i) \/ CorruptFile(d, i)

Next == (\E p \in Procs : ProcStep(p)) \/ Tamper

Spec == Init /\ [][Next]_vars

(***************************************************************************)
(* Specification of the record round trip                                  *)
(***************************************************************************)
InitRecords == RecInit /\ LocIdle /\ RunIdle /\ ArgIdle /\ SecIdle /\ AppIdle /\ PackIdle /\ WaitIdle

NextRecords == PackerWrite \/ RunnerParse

SpecRecords == InitRecords /\ [][NextRecords]_vars

(***************************************************************************)
(* Specification of the starter info location                              *)
(***************************************************************************)
MaxHead == 2

MaxTrail == 3

\* bytes before the record: nothing, some bytes, or bytes holding the signature
Heads ==
  {[i \in 1..n |-> 7] : n \in 0..MaxHead} \cup {Signature \o <<7>>}

\* a starter info record as a package carries it, possibly cut short
Bodies ==
  LET good == AsBytes(RunnerStarterInfo,
                      InfoValues(Pkg("format", Signature, WRAPPE_FORMAT, UidA,
                                     1, 1, 0, <<>>)))
      badfmt == AsBytes(RunnerStarterInfo,
                        InfoValues(Pkg("format", Signature, PACKER_WRAPPE_FORMAT,
                                       UidA, 1, 1, 0, <<>>)))
      badsig == AsBytes(RunnerStarterInfo,
                        InfoValues(Pkg("format", BadSignature, WRAPPE_FORMAT,
                                       UidA, 1, 1, 0, <<>>)))
  IN  {good, badfmt, badsig, SubSeq(good, 1, Len(good) - 1),
       SubSeq(good, 1, SIG_LEN), <<>>}

\* bytes appended after the record: nothing, some bytes, or bytes holding the
\* signature
Trails ==
  {[i \in 1..n |-> 9] : n \in 0..MaxTrail} \cup {<<9>> \o Signature}

LocateFiles == {h \o b \o t : h \in Heads, b \in Bodies, t \in Trails}

LocInit ==
  /\ mmap \in LocateFiles
  /\ located = NotLocated

\* main.rs lines 98-134 on the mapped file
Locate ==
  /\ located = NotLocated
  /\ located' = LocateStarterInfo(mmap)
  /\ UNCHANGED <<mmap, recVars, runVars, sideVars>>

InitLocate == RecIdle /\ LocInit /\ RunIdle /\ ArgIdle /\ SecIdle /\ AppIdle /\ PackIdle /\ WaitIdle

NextLocate == Locate

SpecLocate == InitLocate /\ [][NextLocate]_vars

(***************************************************************************)
(* Specification of the argument vector                                    *)
(***************************************************************************)
InitArgv == RecIdle /\ LocIdle /\ RunIdle /\ ArgInit /\ SecIdle /\ AppIdle /\ PackIdle /\ WaitIdle

NextArgv == Bake \/ Launch

SpecArgv == InitArgv /\ [][NextArgv]_vars

(***************************************************************************)
(* Specification of the round trip of the baked arguments: the lists of    *)
(* the argument vector and lists with an argument that holds the separator *)
(***************************************************************************)
\* "x\u{1f}y"
SplitString == <<120, SEP, 121>>

RoundTripLists ==
  BakedLists \cup {<<SplitString>>, <<SplitString, <<121>>>>, <<<<32, 120>>, SplitString>>}

InitRoundTrip ==
  /\ RecIdle /\ LocIdle /\ RunIdle /\ SecIdle /\ AppIdle /\ PackIdle /\ WaitIdle
  /\ argList \in RoundTripLists
  /\ procArgs \in ProcessArgs
  /\ argStored = <<>>
  /\ argv = <<>>
  /\ argPc = "pack"

NextRoundTrip == Bake \/ Launch

SpecRoundTrip == InitRoundTrip /\ [][NextRoundTrip]_vars

(***************************************************************************)
(* Specification of the section check                                      *)
(***************************************************************************)
InitSections == RecIdle /\ LocIdle /\ RunIdle /\ ArgIdle /\ SecInit /\ AppIdle /\ PackIdle /\ WaitIdle

NextSections == Sections

SpecSections == InitSections /\ [][NextSections]_vars

(***************************************************************************)
(* Specification of the packer's parallel append                           *)
(***************************************************************************)
InitAppend ==
  RecIdle /\ LocIdle /\ RunIdle /\ ArgIdle /\ SecIdle /\ AppInit /\ PackIdle /\ WaitIdle

WorkerStep(w) ==
  \/ CopyEncode(w)
  \/ LockArchive(w)
  \/ CopyPiece(w)
  \/ CopyFails(w)
  \/ UnlockArchive(w)
  \/ PushHeader(w)

NextAppend == (\E w \in Workers : WorkerStep(w)) \/ WriteTrailer

SpecAppend == InitAppend /\ [][NextAppend]_vars

(***************************************************************************)
(* Specification of the packer's passes                                    *)
(***************************************************************************)
InitPack ==
  RecIdle /\ LocIdle /\ RunIdle /\ ArgIdle /\ SecIdle /\ AppIdle /\ PackInit /\ WaitIdle

NextPack ==
  \/ DirectoryPass
  \/ \E i \in 1..Len(entries) : FilePass(i)
  \/ \E i \in 1..Len(entries) : PushLink(i)
  \/ \E i \in 1..Len(entries) : SymlinkPass(i)
  \/ WritePayloadHeader

SpecPack == InitPack /\ [][NextPack]_vars

(***************************************************************************)
(* Specification of the launches that may be ended from outside            *)
(***************************************************************************)
\* packages of the runner's own format on the platform where a launch gets
\* past the engine's lock
InitAbort ==
  /\ Init
  /\ platform = "unix_fcntl"
  /\ pkgOf[1] \in GoodPackages \cup FlatPackages
  /\ pkgOf[2] = pkgOf[1]

NextAbort ==
  \/ \E p \in Procs : ProcStep(p)
  \/ \E p \in Procs : Kill(p)

SpecAbort == InitAbort /\ [][NextAbort]_vars

(***************************************************************************)
(* Specification of the launches over extracted trees whose files or       *)
(* symlinks were changed from outside                                      *)
(***************************************************************************)
\* packages of the runner's own format that verify, on the platform where a
\* launch gets past the engine's lock
InitVerify ==
  /\ Init
  /\ platform = "unix_fcntl"
  /\ pkgOf[1] \in GoodPackages \cup FlatPackages
  /\ pkgOf[1].verification >= 1
  /\ pkgOf[2] = pkgOf[1]

NextVerify ==
  \/ \E p \in Procs : ProcStep(p)
  \/ Tamper
  \/ \E d \in UnpackDirs, j \in 1..Len(Payload.links) :
       \E n \in LinkTampers(d) : TamperLink(d, j, n)

SpecVerify == InitVerify /\ [][NextVerify]_vars

(***************************************************************************)
(* Specification of the closures of the symlink pass                       *)
(***************************************************************************)
InitWait ==
  /\ RecIdle /\ LocIdle /\ ArgIdle /\ SecIdle /\ AppIdle /\ PackIdle
  /\ platform \in Platforms
  /\ pkgOf = [p \in Procs |-> Pkg("format", Signature, WRAPPE_FORMAT, UidA, 2, 0, 0, <<>>)]
  /\ RunStart
  /\ WaitInit

ClosureStep(j) ==
  \/ LinkCheck(j)
  \/ LinkRemove(j)
  \/ LinkPoll(j)
  \/ LinkSleep(j)
  \/ LinkCreate(j)

NextWait ==
  \/ \E j \in Closures : ClosureStep(j)
  \/ \E j \in Closures : Released(j)

\* every closure runs on a thread of its own and goes on while it can; the
\* file system owes nothing
SpecWait ==
  InitWait /\ [][NextWait]_vars /\ \A j \in Closures : WF_vars(ClosureStep(j))

(***************************************************************************)
(* Properties                                                              *)
(***************************************************************************)
\* the unpack directory a package is launched into
TargetOf(pk) ==
  IF pk.versioning = 0 THEN <<TempDir, UnpackName, pk.uid>>
  ELSE <<TempDir, UnpackName>>

\* the source tree of a package as it appears under the unpack directory d:
\* its directories, its files with their contents, its symlinks with their
\* targets
SourceTree(pk, d) ==
  [q \in NodePaths |->
     IF \E i \in 1..Len(SourceDirs) : Directories[i + 1] = q THEN DirNode
     ELSE IF \E i \in 1..Len(SourceFiles) : RelPath(SourceFiles[i]) = q
       THEN FileNode(SourceFiles[CHOOSE i \in 1..Len(SourceFiles) :
                                   RelPath(SourceFiles[i]) = q].content)
     ELSE IF \E j \in 1..pk.nlinks : RelPath(SourceLinks[j]) = q
       THEN LET l == SourceLinks[CHOOSE j \in 1..pk.nlinks :
                                   RelPath(SourceLinks[j]) = q]
            IN  LinkNode(IF l.kind = 0 THEN d \o Directories[l.target + 1]
                         ELSE d \o RelPath(SourceFiles[l.target + 1]))
     ELSE Absent]

\* the unpack directory of launch p holds the sentinel of its package and
\* exactly the source tree
Intact(p) ==
  LET d == loc[p].dir
  IN  /\ fs[d].exists
      /\ fs[d].sentinel = [present |-> TRUE, data |-> info[p].version]
      /\ fs[d].nodes = SourceTree(pkgOf[p], d)

\* every file of the source tree is a regular file with its content
AllFilesPackaged(d) ==
  \A i \in 1..Len(SourceFiles) :
    fs[d].nodes[RelPath(SourceFiles[i])] = FileNode(SourceFiles[i].content)

\* C1: round trip.  When the first launch of a package built by the packer
\* has ended (it failed, or its command was started), the unpack directory
\* exists and holds exactly the directories, files with contents and symlinks
\* of the source tree.
C1_RoundTrip ==
  \A p \in Procs :
    (pkgOf[p].origin = "packer" /\ launches = 1
       /\ pc[p] \in {"fatal", "running", "done"})
      => LET d == TargetOf(pkgOf[p])
         IN  fs[d].exists /\ fs[d].nodes = SourceTree(pkgOf[p], d)

\* C2: on-disk record agreement.  For the record kind at hand the packer's
\* ordered list of (field, width) is the runner's, and the runner reads the
\* record the packer wrote, every field with the bytes written for it.
C2_RecordAgreement ==
  /\ PackerLayout(recKind) = RunnerLayout(recKind)
  /\ recParsed.stage # "pending" =>
       /\ recParsed.stage = "ok"
       /\ \A i \in 1..Len(RunnerLayout(recKind)) :
            LET f == RunnerLayout(recKind)[i][1]
                w == RunnerLayout(recKind)[i][2]
            IN  recParsed.fields[f] = FieldBytes(f, w, recVal[f])

\* C3: the wrappe_format byte of a starter info written by the packer is the
\* WRAPPE_FORMAT the runner compares against.
C3_FormatByte ==
  (recKind = "StarterInfo" /\ recBytes # <<>>)
    => recBytes[OffsetOf(PackerStarterInfo, "wrappe_format") + 1] = WRAPPE_FORMAT

\* C4: format gating.  A launch of a package whose starter info carries
\* another signature or another wrappe_format byte than the runner expects is
\* fatal, and it has created no unpack directory, holds no lock, has created
\* no lock file, has extracted nothing and has not started the command.
C4_FormatGating ==
  \A p \in Procs :
    ((pkgOf[p].signature # Signature \/ pkgOf[p].format # WRAPPE_FORMAT)
       /\ pc[p] # "idle")
      => /\ pc[p] = "fatal"
         /\ touched[p] = {}
         /\ \A d \in UnpackDirs : lock[d].proc # p
         /\ LET d == TargetOf(pkgOf[p])
            IN  /\ ~fs[d].exists
                /\ ~fs[d].lockfile
                /\ ~fs[d].sentinel.present
                /\ fs[d].nodes = EmptyDir.nodes

\* a launch was refused at the format comparison of a located record
C4_Witness ==
  \E p \in Procs :
    /\ pc[p] = "fatal"
    /\ pkgOf[p].format # WRAPPE_FORMAT
    /\ pkgOf[p].origin = "format"
    /\ Booted[pkgOf[p]].result.reason
         = "runner version differs from wrapper version"
    /\ Booted[pkgOf[p]].result.info_start # NotFound

\* C5: starter info location.  The offset in use is the tail offset
\* len - sizeof(StarterInfo) when the signature is there, else the offset of
\* the last occurrence of the signature in the file; with no occurrence, or
\* with a record that would end after the end of the file, the result is
\* fatal.
C5_Location ==
  located.status # "pending" =>
    LET size == SizeOf(RunnerStarterInfo)
        tail == Len(mmap) - size
        occ == {i \in 0..(Len(mmap) - SIG_LEN) :
                  \A k \in 1..SIG_LEN : mmap[i + k] = Signature[k]}
        want == IF tail >= 0 /\ tail \in occ THEN tail
                ELSE IF occ = {} THEN NotFound
                ELSE CHOOSE i \in occ : \A j \in occ : j <= i
    IN  /\ located.status = "ok" => located.info_start = want
        /\ (want = NotFound \/ want + size > Len(mmap))
             => located.status = "fatal"
        /\ located.info_start \in {want, NotFound}

\* a record followed by appended bytes, and preceded by bytes that hold the
\* signature too, was found through the search
C5_Witness ==
  /\ located.status = "ok"
  /\ located.info_start + SizeOf(RunnerStarterInfo) < Len(mmap)
  /\ located.info_start > SIG_LEN
  /\ SubSeq(mmap, 1, SIG_LEN) = Signature

\* C6: mutual exclusion.  Two launches into the same unpack directory are
\* never both between the start of the verify pass and the sentinel write, or
\* in the single-instance check; a launch in that span holds the lock.
C6_MutualExclusion ==
  LET InSpan(p) ==
        pc[p] \in {"once", "verify", "xdirs", "xfiles", "xlinks", "setver"}
  IN  /\ \A p, q \in Procs :
           (p # q /\ InSpan(p) /\ InSpan(q)) => loc[p].dir # loc[q].dir
      /\ \A p \in Procs : InSpan(p) => lock[loc[p].dir].proc = p

\* one launch extracts while another launch into the same directory waits
\* for the lock
C6_Witness ==
  \E p, q \in Procs :
    /\ p # q
    /\ pc[p] \in {"xfiles", "xlinks"}
    /\ pc[q] = "lock"
    /\ info[q].once = 0
    /\ loc[q].dir = loc[p].dir

\* C7: no launch waits for a lock it holds itself.  A launch at the lock of
\* the decompression engine is not kept from it by the lock its own
\* bootstrap took.
C7_NoSelfWait ==
  \A p \in Procs :
    pc[p] = "dlock"
      => ~(lock[loc[p].dir].proc = p /\ ~CanLock(p, loc[p].dir))

\* C8: idempotent re-run.  With versioning sidebyside or replace and
\* verification existence, a launch that finds the unpack directory intact
\* enters the engine with should_extract false, and its verify pass returns
\* without extraction and without a change of the directory.
C8_IdempotentRerun ==
  [][\A p \in Procs :
       /\ (/\ pc[p] = "decide" /\ pc'[p] # "decide"
           /\ info[p].versioning \in {0, 1} /\ info[p].verification = 1
           /\ Intact(p))
            => (pc'[p] = "dlock" /\ ~loc'[p].should_extract /\ fs' = fs)
       /\ (/\ pc[p] = "verify" /\ pc'[p] # "verify"
           /\ info[p].versioning \in {0, 1} /\ info[p].verification = 1
           /\ Intact(p))
            => /\ pc'[p] = "dret"
               /\ ~loc'[p].should_extract
               /\ ~loc'[p].extracted
               /\ fs' = fs]_vars

\* a later launch has verified the intact directory and returns from the
\* engine without having extracted
C8_Witness ==
  \E p \in Procs :
    /\ pc[p] = "dret"
    /\ launches >= 2
    /\ loc[p].verified
    /\ ~loc[p].extracted
    /\ info[p].versioning \in {0, 1}
    /\ info[p].verification = 1
    /\ Intact(p)

\* C9: frame of a non-extracting launch.  A step of a launch after which the
\* launch has not decided to extract leaves the directories, files, symlinks
\* and the sentinel of every unpack directory as they were, and writes none
\* of them.
C9_Frame ==
  [][\A p \in Procs :
       (/\ pc[p] # "idle" /\ pc'[p] # "idle" /\ pc'[p] # pc[p]
        /\ ~loc'[p].should_extract)
         => /\ \A d \in UnpackDirs : /\ fs'[d].nodes = fs[d].nodes
                                     /\ fs'[d].sentinel = fs[d].sentinel
            /\ touched'[p] \ {MarkUnpackDir} = touched[p] \ {MarkUnpackDir}
            /\ touched'[p] \ {MarkUnpackDir} = {}]_vars

\* a launch went through the verify pass, did not extract and is about to
\* start the command
C9_Witness ==
  \E p \in Procs :
    /\ pc[p] = "spawn"
    /\ loc[p].verified
    /\ ~loc[p].should_extract
    /\ touched[p] = {}
    /\ fs[loc[p].dir].sentinel.present

\* C10: self-healing on deletion.  A launch with versioning sidebyside or
\* replace and verification 1 or 2 that found the sentinel equal to its UID
\* and some file record not a regular file decides to extract in its verify
\* pass, does not leave the engine without the extract pass, and from the end
\* of the file pass on every file of the package is a regular file with its
\* packaged content.
C10_SelfHealing ==
  \A p \in Procs :
    (/\ loc[p].sentinelEq /\ ~loc[p].filesOk
     /\ info[p].versioning \in {0, 1} /\ info[p].verification \in {1, 2})
      => /\ loc[p].verified => loc[p].should_extract
         /\ pc[p] \in {"dret", "unlock", "spawn", "running", "done"}
              => loc[p].extracted
         /\ pc[p] \in {"xlinks", "setver", "dret", "unlock", "spawn", "running"}
              => AllFilesPackaged(loc[p].dir)

\* after a file was deleted, a launch has extracted again and started the
\* command with every file in place
C10_Witness ==
  \E p \in Procs :
    /\ loc[p].sentinelEq /\ ~loc[p].filesOk
    /\ info[p].versioning \in {0, 1} /\ info[p].verification \in {1, 2}
    /\ tampers >= 1
    /\ pc[p] = "running"
    /\ loc[p].extracted
    /\ AllFilesPackaged(loc[p].dir)

\* the unpack directory of launch p holds the sentinel of its package, every
\* file record is a regular file and every symlink is as packaged, but some
\* file's content does not hash to its file_hash
Corrupted(p) ==
  LET d == loc[p].dir
  IN  /\ get_version(fs[d]) = info[p].version
      /\ FilesPresent(fs[d], d)
      /\ \A j \in 1..pkgOf[p].nlinks : LinkVerified(fs[d], d, Payload.links[j])
      /\ \E i \in 1..Len(Payload.files) :
           XxHash64(Resolve(fs[d], d, RelPath(Payload.files[i]), LinkFuel).content)
             # Payload.files[i].file_hash

\* C11: content corruption.  A launch with versioning sidebyside or replace
\* that finds the sentinel equal to its UID and a present file whose content
\* no longer hashes to file_hash decides to extract again exactly when
\* verification is checksum: with verification none it does not enter the
\* engine, with existence its verify pass returns without extraction, and in
\* both cases no step of the launch changes the directory, so the file stays
\* as it is.
C11_Corruption ==
  [][\A p \in Procs :
       LET Case == /\ pc'[p] # pc[p]
                   /\ info[p].versioning \in {0, 1}
                   /\ ~loc[p].should_extract
                   /\ Corrupted(p)
       IN  /\ (pc[p] = "decide" /\ Case)
                => /\ ~loc'[p].should_extract
                   /\ fs' = fs
                   /\ pc'[p] = IF info[p].verification = 0 THEN "unlock"
                               ELSE "dlock"
           /\ (pc[p] = "verify" /\ Case)
                => /\ fs' = fs
                   /\ loc'[p].should_extract <=> info[p].verification = 2
                   /\ pc'[p] = IF info[p].verification = 2 THEN "xdirs"
                               ELSE "dret"
           /\ (/\ pc[p] \in {"dlock", "dret", "unlock", "spawn", "running"}
               /\ info[p].verification \in {0, 1}
               /\ Case)
                => (fs' = fs /\ ~loc'[p].extracted)]_vars

\* after a file was changed, a launch with verification checksum found
\* sentinel and files in place, extracted again and started the command with
\* every file holding its packaged content
C11_Witness ==
  \E p \in Procs :
    /\ tampers >= 1
    /\ pc[p] = "running"
    /\ info[p].versioning \in {0, 1} /\ info[p].verification = 2
    /\ loc[p].sentinelEq /\ loc[p].filesOk
    /\ loc[p].extracted
    /\ AllFilesPackaged(loc[p].dir)

\* C12: versioning none.  A launch of a package with versioning none decides
\* to extract whatever the sentinel holds and enters the engine with
\* verification 0, the verify pass checks nothing and goes on to extract, and
\* the launch does not get past the engine without having extracted.
C12_VersioningNone ==
  [][\A p \in Procs :
       /\ (pc[p] = "decide" /\ pc'[p] # "decide" /\ info[p].versioning = 2)
            => /\ pc'[p] = "dlock"
               /\ loc'[p].should_extract
               /\ loc'[p].verification = 0
       /\ (pc[p] = "verify" /\ pc'[p] # "verify" /\ info[p].versioning = 2)
            => /\ pc'[p] = "xdirs"
               /\ loc'[p].should_extract
               /\ loc[p].verification = 0
       /\ (pc'[p] \in {"dret", "unlock", "spawn", "running", "done"}
             /\ info'[p].versioning = 2)
            => loc'[p].extracted]_vars

\* a later launch of a package with versioning none and verification checksum
\* found the sentinel equal to its UID and every file in place, extracted all
\* the same and started the command
C12_Witness ==
  \E p \in Procs :
    /\ launches >= 2
    /\ pc[p] = "running"
    /\ info[p].versioning = 2 /\ info[p].verification = 2
    /\ loc[p].sentinelEq /\ loc[p].filesOk
    /\ loc[p].extracted
    /\ touched[p] # {}

\* C13: first launch always extracts.  A launch that is about to start the
\* entry command, or has started it, in an unpack directory that holds no
\* version sentinel has performed the extract pass.
C13_FirstLaunchExtracts ==
  \A p \in Procs :
    (pc[p] \in {"spawn", "running", "done"}
       /\ ~fs[loc[p].dir].sentinel.present)
      => loc[p].extracted

\* two launchable packages with versioning sidebyside and different UIDs
SideBySide(p, q) ==
  /\ p # q
  /\ Booted[pkgOf[p]].result.status = "ok"
  /\ Booted[pkgOf[q]].result.status = "ok"
  /\ pkgOf[p].versioning = 0 /\ pkgOf[q].versioning = 0
  /\ pkgOf[p].uid # pkgOf[q].uid

C15_OnceContention ==
  [][\A p \in Procs :
       (/\ pc[p] = "lock"
        /\ info[p].once = 1
        /\ lock[loc[p].dir].proc \notin {0, p})
         => /\ ENABLED LockGuard(p)
            /\ pc'[p] # pc[p]
                 => /\ pc'[p] = "exited"
                    /\ lock' = lock
                    /\ \A d \in UnpackDirs : /\ fs'[d].nodes = fs[d].nodes
                                             /\ fs'[d].sentinel = fs[d].sentinel
                    /\ touched'[p] \subseteq {MarkUnpackDir}
                    /\ ~loc'[p].verified
                    /\ ~loc'[p].extracted]_vars

\* of two launches, one holds the lock and is deciding or in the engine while
\* the other has left at the lock
C15_Witness ==
  \E p, q \in Procs :
    /\ p # q
    /\ launches = 2
    /\ pc[p] = "exited"
    /\ info[p].once = 1
    /\ pc[q] \in {"once", "decide", "dlock", "verify", "xdirs", "xfiles"}
    /\ loc[q].dir = loc[p].dir
    /\ lock[loc[p].dir].proc = q

\* C16: single instance.  Of the launches of packages built with once = 1,
\* no two run the same entry command at the same time.
C16_SingleInstance ==
  \A p, q \in Procs :
    (/\ p # q
     /\ pc[p] = "running" /\ pc[q] = "running"
     /\ info[p].once = 1 /\ info[q].once = 1)
      => loc[p].dir \o <<info[p].command_name>>
           # loc[q].dir \o <<info[q].command_name>>

\* C19: payload integrity at extraction.  A launch of a package in which the
\* bytes of some file's range do not hash to the record's compressed_hash
\* never gets past the file pass: it does not reach the symlink pass, the
\* sentinel write, the return from the engine or the spawn, it writes no
\* sentinel, and the step of the file pass that meets the damaged range is
\* fatal.
C19_PayloadIntegrity ==
  [][\A p \in Procs :
       (pkgOf[p].badblob # 0 /\ pc'[p] # "idle")
         => /\ pc'[p] \notin {"xlinks", "setver", "dret", "unlock", "spawn",
                              "running", "done"}
            /\ MarkSentinel \notin touched'[p]
            /\ ~loc'[p].extracted
            /\ (/\ pc[p] = "xfiles"
                /\ loc'[p].filesLeft = loc[p].filesLeft
                /\ fs' # fs)
                 => pc'[p] = "fatal"]_vars

\* the file pass of such a launch unpacked the undamaged file, met the
\* damaged range and ended the launch; no sentinel is there
C19_Witness ==
  \E p \in Procs :
    /\ pkgOf[p].badblob # 0
    /\ pc[p] = "fatal"
    /\ loc[p].should_extract
    /\ Cardinality(loc[p].filesLeft) = 1
    /\ Cardinality(touched[p] \ {MarkUnpackDir}) >= 3
    /\ ~fs[loc[p].dir].sentinel.present

\* an argument without the white space around it
Stripped(arg) ==
  LET keep == {i \in 1..Len(arg) : arg[i] \notin WhiteSpace}
  IN  IF keep = {} THEN <<>>
      ELSE SubSeq(arg, MinOf(keep), MaxOf(keep))

\* C17: the argument vector.  The entry command is started with the baked
\* arguments in the order they were given to the packer (each as the runner
\* reads it back: without surrounding white space, empty ones left out),
\* followed by the arguments of the launching process without argv[0], in
\* their order and unchanged; for baked arguments that are not empty and
\* carry no surrounding white space that is the list given to the packer
\* followed by the forwarded arguments.
C17_Argv ==
  argPc = "started" =>
    LET baked == [i \in 1..Len(argList) |-> Stripped(argList[i])]
        kept == {i \in 1..Len(baked) : baked[i] # <<>>}
        n == Cardinality(kept)
        forwarded == Len(procArgs) - 1
    IN  /\ Len(argv) = n + forwarded
        /\ \A i \in kept :
             argv[Cardinality({k \in kept : k <= i})] = baked[i]
        /\ \A j \in 1..forwarded : argv[n + j] = procArgs[j + 1]
        /\ (\A i \in 1..Len(argList) : argList[i] # <<>> /\ baked[i] = argList[i])
             => argv = argList \o SubSeq(procArgs, 2, Len(procArgs))

\* a command was started with two different baked arguments and two
\* forwarded ones, one of them empty
C17_Witness ==
  /\ argPc = "started"
  /\ Len(argList) = 2
  /\ argList[1] # argList[2]
  /\ \A i \in 1..2 : argList[i] # <<>> /\ Stripped(argList[i]) = argList[i]
  /\ Len(procArgs) = 3
  /\ procArgs[2] = <<>>
  /\ procArgs[3] # <<>>
  /\ Len(argv) = 4

\* C20: parallel append.  At every moment the ranges [position,
\* position + size) of the file records emitted so far are pairwise disjoint,
\* the output holds in each range exactly the complete compressed stream of
\* the record's file, and once payload_size is written every range lies
\* inside [0, payload_size).
C20_ParallelAppend ==
  /\ \A i, j \in 1..Len(files) :
       i # j => \/ files[i].position + files[i].size <= files[j].position
                \/ files[j].position + files[j].size <= files[i].position
  /\ \A i \in 1..Len(files) :
       /\ files[i].position >= 0
       /\ files[i].size = Len(wdata[files[i].file])
       /\ Zero + files[i].position + files[i].size <= Len(archive)
       /\ Slice(archive, Zero + files[i].position,
                Zero + files[i].position + files[i].size)
            = wdata[files[i].file]
       /\ payloadSize # NotWritten
            => files[i].position + files[i].size <= payloadSize

\* the trailer is written after every worker has emitted its record, the
\* records are not in the order of the files, and the streams fill the payload
C20_Witness ==
  /\ payloadSize # NotWritten
  /\ Len(files) = NumFiles
  /\ files[1].file # 1
  /\ files[1].position > 0
  /\ \E i \in 1..Len(files) : files[i].size > 1

\* a launch of a package whose section table was changed ends fatal where it
\* enters the engine, before it has created, written or removed anything
\* below the unpack directory, and no sentinel is written
SectionFatalBeforeWrite ==
  \A p \in Procs :
    (pkgOf[p].badsections /\ pc[p] # "idle")
      => /\ pc[p] \in {"mkdir", "lock", "decide", "fatal"}
         /\ touched[p] \subseteq {MarkUnpackDir}
         /\ fs[TargetOf(pkgOf[p])].nodes = EmptyDir.nodes
         /\ ~fs[TargetOf(pkgOf[p])].sentinel.present

\* C18: section integrity.  When the engine has read the sections of a
\* package file: a hash over the decoded records that differs from the
\* trailer's section_hash makes the result fatal, and for a package built by
\* the packer and not changed afterwards the hash is computed, equals the
\* trailer's section_hash and the sections are accepted.
C18_SectionIntegrity ==
  secResult # NotRead =>
    /\ secResult.computed # secResult.expected => secResult.status = "fatal"
    /\ (secPkg.origin = "packer" /\ ~secPkg.badsections /\ secPkg.badblob = 0)
         => /\ secResult.status = "ok"
            /\ secResult.computed # NotFound
            /\ secResult.computed = secResult.expected

\* all records the packer holds: directories, files, symlinks
Records ==
  {directories[i] : i \in 1..Len(directories)}
    \cup {headers[i] : i \in 1..Len(headers)}
    \cup {symlinkRecs[i] : i \in 1..Len(symlinkRecs)}

\* the entries that have a record
Emitted == {r.entry : r \in Records}

\* C21: name bound. No directory, file or symlink record of the packer has a
\* basename longer than NAME_SIZE - 1 = 127 bytes, so that every stored name
\* has a terminating NUL inside its 128-byte field; every entry whose
\* basename has 128 bytes or more is skipped.
C21_NameBound ==
  /\ \A r \in Records :
       /\ Len(CStr(r.name)) <= NAME_SIZE - 1
       /\ \E i \in 1..NAME_SIZE : r.name[i] = 0
  /\ \A i \in Emitted : Len(FileName(entries[i].path)) < NAME_SIZE

\* what the checks of lines 182, 243 and 446 do ensure: a name that has a
\* record fits its field, with or without a NUL after it
NameFitsField ==
  \A i \in Emitted : Len(FileName(entries[i].path)) <= PACKER_NAME_SIZE

\* the directories of the walk the directory pass has skipped (the source
\* directory itself is the virtual root and has no record)
SkippedDirs ==
  {i \in OfType("dir") : i <= walked /\ entries[i].path # <<>> /\ i \notin Emitted}

\* entry j lies below directory i
Below(j, i) ==
  /\ Len(entries[j].path) > Len(entries[i].path)
  /\ IsPrefix(entries[i].path, entries[j].path)

\* C22: skip propagation. If the packer skips a directory (oversize name,
\* excluded, or no included parent), no directory, file or symlink record is
\* emitted for any entry below that directory, at any depth.
C22_SkipPropagation ==
  \A i \in SkippedDirs : \A j \in Emitted : ~Below(j, i)

\* what does hold: the entries directly inside a directory that was skipped
\* for its name or as the excluded path have no record
ChildrenOfUnlistedSkipped ==
  \A i \in SkippedDirs :
    ToSlash(entries[i].path) \notin {parents[k] : k \in 1..Len(parents)}
      => \A j \in Emitted : ~(Below(j, i) /\ Len(entries[j].path) = Len(entries[i].path) + 1)

\* PathBuf::join on paths given by their components: a path that starts at
\* the root replaces the base
JoinPath(base, rel) ==
  IF rel # <<>> /\ Head(rel) # <<>> /\ Head(rel)[1] = 47 THEN rel ELSE base \o rel

RECURSIVE Rebuild(_, _)
\* decompress.rs lines 112-141: the fold over the directory records; entry 1
\* of the list is the unpack directory (index 0 of the code), a record whose
\* parent is not in the list yet is an index out of bounds
Rebuild(records, acc) ==
  IF records = <<>> THEN [ok |-> TRUE, list |-> acc]
  ELSE IF Head(records).parent >= Len(acc) THEN [ok |-> FALSE, list |-> acc]
  ELSE Rebuild(Tail(records),
               Append(acc, JoinPath(acc[Head(records).parent + 1],
                                    <<CStr(Head(records).name)>>)))

\* the directory list the runner builds from the directory records
Rebuilt == Rebuild(directories, <<<<>>>>)

\* the file records and the symlink records
Leaves ==
  {headers[i] : i \in 1..Len(headers)}
    \cup {symlinkRecs[i] : i \in 1..Len(symlinkRecs)}

\* C23: parent validity. In every package the packer produces, the parent
\* field of every file record and every symlink record is an index into the
\* directory list the runner reconstructs (0 <= parent <= directory_sections),
\* also for trees where some directories were skipped.
C23_ParentValidity ==
  trailer.written
    => \A r \in Leaves :
         /\ 0 <= r.parent
         /\ r.parent <= trailer.directory_sections
         /\ r.parent < Len(Rebuilt.list)

\* what does hold: the parent field is an index into the packer's parents,
\* and names the directory the entry is in
ParentInParents ==
  \A r \in Leaves :
    /\ r.parent < Len(parents)
    /\ parents[r.parent + 1] = ToSlash(ParentOf(entries[r.entry].path))

\* with no directory skipped the runner's list is the packer's parents
NoSkipSameLists ==
  (walked = Len(entries) /\ SkippedDirs = {})
    => /\ Rebuilt.ok
       /\ [k \in 1..Len(Rebuilt.list) |-> ToSlash(Rebuilt.list[k])] = parents

\* C24: topological order. Index 0 of the directory list is the virtual
\* root, and every emitted directory record's parent is strictly less than
\* the index the runner assigns to the record (its position in the directory
\* array plus one), so that the runner's directories[parent] is already built
\* when the record is decoded.
C24_TopologicalOrder ==
  /\ parents[1] = <<>>
  /\ Rebuilt.list[1] = <<>>
  /\ \A i \in 1..Len(directories) : directories[i].parent < i
  /\ Rebuilt.ok

\* what does hold: a directory record's parent precedes the directory in
\* the packer's parents
ParentPrecedesInParents ==
  \A i \in 1..Len(directories) :
    directories[i].parent < Position(parents, ToSlash(entries[directories[i].entry].path))

\* the path below the source directory a symlink record's link resolved to
ResolvedOf(r) == StripPrefix(entries[r.entry].link.to, SourceRoot).rel

\* a kind = 0 record's target indexes the runner's directory list and is
\* the directory the link resolved to
DirTargetValid(r) ==
  /\ r.target < Len(Rebuilt.list)
  /\ r.target <= Len(directories)
  /\ Rebuilt.list[r.target + 1] = ResolvedOf(r)

\* a kind = 1 record's target indexes the file array and is the file the
\* link resolved to
FileTargetValid(r) ==
  /\ r.target < Len(headers)
  /\ entries[headers[r.target + 1].entry].path = ResolvedOf(r)
  /\ entries[headers[r.target + 1].entry].type = "file"

\* C25: symlink target validity. Every emitted symlink record with kind = 0
\* has a target that is a valid index of the reconstructed directory list
\* and denotes the directory the source link resolved to; every record with
\* kind = 1 has a target that is a valid index of the file array and denotes
\* the file the source link resolved to.
C25_TargetValidity ==
  \A i \in 1..Len(symlinkRecs) :
    /\ symlinkRecs[i].kind \in {0, 1}
    /\ symlinkRecs[i].kind = 0 => DirTargetValid(symlinkRecs[i])
    /\ symlinkRecs[i].kind = 1 => FileTargetValid(symlinkRecs[i])

\* what does hold: the file targets are valid, and so are the directory
\* targets of a tree in which no directory was skipped
TargetsValidUnlessSkipped ==
  \A i \in 1..Len(symlinkRecs) :
    /\ symlinkRecs[i].kind = 1 => FileTargetValid(symlinkRecs[i])
    /\ (symlinkRecs[i].kind = 0 /\ SkippedDirs = {})
         => DirTargetValid(symlinkRecs[i])

NotMade == [made |-> FALSE, path |-> <<>>, target |-> <<>>]

\* decompress.rs lines 434-499 for one symlink record below unpack_dir: the
\* link's path and the target it is created with; nothing is created when
\* the directory list, a file's directory or one of the record's indices is
\* out of bounds (a panic)
CreateSymlink(unpack_dir, r) ==
  LET list == Rebuilt.list
      InList(k) == k < Len(list)
  IN  IF ~Rebuilt.ok \/ ~InList(r.parent)
           \/ \E i \in 1..Len(headers) : ~InList(headers[i].parent)
        THEN NotMade
      ELSE IF r.kind = 0
        THEN IF ~InList(r.target) THEN NotMade
             ELSE [made |-> TRUE,
                   path |-> JoinPath(JoinPath(unpack_dir, list[r.parent + 1]),
                                     <<CStr(r.name)>>),
                   target |-> JoinPath(unpack_dir, list[r.target + 1])]
      ELSE IF r.target >= Len(headers) THEN NotMade
      ELSE LET file == headers[r.target + 1]
           IN  [made |-> TRUE,
                path |-> JoinPath(JoinPath(unpack_dir, list[r.parent + 1]),
                                  <<CStr(r.name)>>),
                target |-> JoinPath(JoinPath(unpack_dir, list[file.parent + 1]),
                                    <<CStr(file.name)>>)]

\* C26: a symlink whose canonicalized target lies outside the source root is
\* never emitted as a symlink record; consequently every symlink the runner
\* creates from the records points to a path inside the unpack directory.
C26_NoOutsideLink ==
  \A i \in 1..Len(symlinkRecs) :
    /\ IsPrefix(SourceRoot, entries[symlinkRecs[i].entry].link.to)
    /\ LET made == CreateSymlink(<<TempDir, UnpackName>>, symlinkRecs[i])
       IN  made.made
             => /\ IsPrefix(<<TempDir, UnpackName>>, made.target)
                /\ IsPrefix(<<TempDir, UnpackName>>, made.path)

\* a symlink that resolves outside the source directory has passed the
\* symlink pass, was reported and has no record in the finished package
C26_Witness ==
  /\ trailer.written
  /\ \E i \in OfType("symlink") \cap passed :
       /\ entries[i].link.status = "resolved"
       /\ ~IsPrefix(SourceRoot, entries[i].link.to)
       /\ <<i, "link points to outside the directory">> \in errors
       /\ i \notin Emitted

\* a symlink that resolves inside the source directory has a record and
\* the runner creates it from the record
InsideLinkMade ==
  /\ trailer.written
  /\ \E i \in 1..Len(symlinkRecs) :
       CreateSymlink(<<TempDir, UnpackName>>, symlinkRecs[i]).made

\* the entry of the walk at a path, 0 when there is none
EntryAt(path) ==
  LET at == {i \in 1..Len(entries) : entries[i].path = path}
  IN  IF at = {} THEN 0 ELSE CHOOSE i \in at : TRUE

\* the directory an entry is in is not part of the package
ParentNotIncluded(i) ==
  /\ Len(entries[i].path) > 1
  /\ EntryAt(ParentOf(entries[i].path)) \notin Emitted

\* a file or symlink entry that cannot be packaged for a reason of its own:
\* open, read, canonicalize, strip-prefix, oversize name, non-included parent
FileScopedFailure(i) ==
  \/ entries[i].io \in {"open", "read"}
  \/ entries[i].link.status = "dangling"
  \/ /\ entries[i].link.status = "resolved"
     /\ ~IsPrefix(SourceRoot, entries[i].link.to)
  \/ Len(FileName(entries[i].path)) >= NAME_SIZE
  \/ ParentNotIncluded(i)

\* a symlink whose target has no record is skipped as well
TargetIncluded(i) ==
  entries[i].type = "symlink"
    => LET rel == StripPrefix(entries[i].link.to, SourceRoot).rel
       IN  rel = <<>> \/ EntryAt(rel) \in Emitted

Reported(i) == \E e \in errors : e[1] = i

\* C27: file-scoped failures. When processing one entry fails for a
\* file-scoped reason (open, read, canonicalize, strip-prefix, oversize name,
\* non-included parent), the packer invokes the error callback for that
\* entry, emits no record for it, and still emits the records of all other
\* entries and the trailer.
C27_FileScopedFailures ==
  /\ ~trailer.written => ENABLED NextPack
  /\ trailer.written
       => \A i \in OfType("file") \cup OfType("symlink") :
            /\ FileScopedFailure(i) => (Reported(i) /\ i \notin Emitted)
            /\ (~FileScopedFailure(i) /\ ~entries[i].excluded /\ TargetIncluded(i))
                 => i \in Emitted

\* what does hold: an entry the packer reports has no record, an entry that
\* went through its pass has a record or was reported, and no failure of an
\* entry keeps the passes and the trailer from being done
ReportedThenSkipped ==
  /\ ~trailer.written => ENABLED NextPack
  /\ \A i \in 1..Len(entries) :
       /\ Reported(i) => i \notin Emitted
       /\ i \in passed => (Reported(i) \/ i \in Emitted)
       /\ (i \in passed /\ entries[i].io \in {"open", "read"}) => Reported(i)
       /\ (i \in passed /\ entries[i].link.status = "dangling") => Reported(i)
       /\ (i \in passed /\ Len(FileName(entries[i].path)) > PACKER_NAME_SIZE)
            => Reported(i)

\* the copy of worker w's compressed stream to the output has failed
WriteFailed(w) == wpc[w] = "skipped" /\ wdata[w] # <<>>

\* C28: fatal build failures. A failed write of a file's compressed bytes to
\* the destination stream aborts the build and is surfaced to the caller:
\* the packer never completes a package (trailer written, normal return)
\* after such a failure.
C28_FatalWrite ==
  (\E w \in Workers : WriteFailed(w)) => payloadSize = NotWritten

\* what does hold: the file whose write failed has no record, and the bytes
\* that were written before the failure stay in the payload
FailedWriteHasNoRecord ==
  \A w \in Workers :
    WriteFailed(w)
      => /\ \A i \in 1..Len(files) : files[i].file # w
         /\ \A k \in 1..wsent[w] : archive[wstart[w] + k] = wdata[w][k]

\* decompress.rs lines 59-98 on m = &mmap[..info_start]: the regions derived
\* backwards from the trailer; not ok when the trailer does not fit or a
\* region would start before the file
Layout(m) ==
  LET start == Len(m) - SizeOf(RunnerPayloadHeader)
  IN  IF start < 0
        THEN [ok |-> FALSE, payload_header_start |-> start, sections_start |-> 0,
              dictionary_start |-> 0, files_start |-> 0]
      ELSE
        LET h == RefNew(RunnerPayloadHeader, Slice(m, start, Len(m))).fields
            sections_start == start - FromLE(h.sections_size)
            dictionary_start == sections_start - FromLE(h.dictionary_size)
            files_start == dictionary_start - FromLE(h.payload_size)
        IN  [ok |-> files_start >= 0 /\ FromLE(h.sections_size) < Huge
                      /\ FromLE(h.dictionary_size) < Huge
                      /\ FromLE(h.payload_size) < Huge,
             payload_header_start |-> start,
             sections_start |-> sections_start,
             dictionary_start |-> dictionary_start,
             files_start |-> files_start]

\* the part of a package file the engine reads: the bytes before the
\* starter info
EngineView(pk) == Slice(Image(pk), 0, Booted[pk].result.info_start)

\* the position at which the packer started to write the payload blob: the
\* end of the runner image
PayloadStart == Len(ImageStub)

\* the regions the runner derives are where the blob, the dictionary and the
\* zstd-compressed section table of the package are
LayoutAgrees(pk) ==
  LET m == EngineView(pk)
      l == Layout(m)
  IN  /\ l.ok
      /\ l.files_start = PayloadStart
      /\ Slice(m, l.files_start, l.dictionary_start) = Blob(pk)
      /\ DecodeAll(Slice(m, l.sections_start, l.payload_header_start)).ok

\* C29: region layout agreement. The packer writes, after the runner image,
\* the payload blob, then the dictionary, then the zstd-compressed section
\* table, then the PayloadHeader; for every package it produces, files_start
\* as the runner derives it backwards from the trailer (trailer start -
\* sections_size - dictionary_size - payload_size) is the offset at which the
\* packer started writing the payload blob.
C29_RegionLayout ==
  (secResult # NotRead /\ secPkg.origin = "packer"
     /\ Booted[secPkg].result.info_start # NotFound)
    => LayoutAgrees(secPkg)

\* what does hold: the layout agrees for the packages in the runner's own
\* format
LayoutOfRunnerFormat ==
  (secResult # NotRead /\ secPkg.origin = "format"
     /\ Booted[secPkg].result.info_start # NotFound)
    => LayoutAgrees(secPkg)

\* launch p has created every directory, written every file and created
\* every symlink of its package in this pass, and they are in place
PayloadInPlace(p) ==
  LET d == loc[p].dir
  IN  /\ loc[p].should_extract
      /\ loc[p].filesLeft = {}
      /\ loc[p].linksLeft = {}
      /\ fs[d].exists
      /\ \A i \in 2..Len(Directories) :
           Resolve(fs[d], d, Directories[i], LinkFuel).kind = "dir"
      /\ \A i \in 1..Len(Payload.files) :
           /\ \E at \in touched[p] \cap NodePaths :
                fs[d].nodes[at] = FileNode(Decode(Payload.files[i].blob))
           /\ HashMatches(Content(pkgOf[p], i), Payload.files[i].compressed_hash)
           /\ PathIsFile(fs[d], d, RelPath(Payload.files[i]))
      /\ \A j \in 1..Len(Symlinks(pkgOf[p])) :
           /\ RelPath(Symlinks(pkgOf[p])[j]) \in touched[p]
           /\ fs[d].nodes[RelPath(Symlinks(pkgOf[p])[j])].kind = "link"

\* C30: sentinel ordering. Within one extract pass the version sentinel is
\* written only after every directory has been created, every file has been
\* written and hash-checked, and every symlink has been created; no payload
\* write of that pass happens after the sentinel write.
C30_SentinelLast ==
  [][\A p \in Procs :
       /\ (MarkSentinel \notin touched[p] /\ MarkSentinel \in touched'[p])
            => (pc[p] = "setver" /\ PayloadInPlace(p))
       /\ (MarkSentinel \in touched[p] /\ MarkSentinel \in touched'[p])
            => touched'[p] = touched[p]
       /\ (MarkSentinel \in touched[p] /\ MarkSentinel \notin touched'[p])
            => (Ended(p) /\ touched'[p] = {})]_vars

\* a launch has written the sentinel at the end of a pass that unpacked the
\* files and created both symlinks of its package
C30_Witness ==
  \E p \in Procs :
    /\ pc[p] = "dret"
    /\ MarkSentinel \in touched[p]
    /\ Len(Symlinks(pkgOf[p])) = Len(SourceLinks)
    /\ PayloadInPlace(p)
    /\ fs[loc[p].dir].sentinel = [present |-> TRUE, data |-> info[p].version]

\* the unpack directory of launch slot p carries the UID of its package while
\* nobody holds its lock and nothing was changed from outside
SentinelCurrent(p) ==
  LET d == TargetOf(pkgOf[p])
  IN  /\ tampers = 0
      /\ lock[d] = Free
      /\ fs[d].sentinel = [present |-> TRUE, data |-> pkgOf[p].uid]

\* C31: sentinel soundness across aborted runs.  In every reachable state in
\* which no process holds the lock of an unpack directory and its sentinel
\* equals the UID of the package, every file record of the package is a file
\* of the unpack directory with its complete packaged content, also after a
\* launch was ended in the middle of an extract pass.
C31_SentinelSound ==
  \A p \in Procs : SentinelCurrent(p) => AllFilesPackaged(TargetOf(pkgOf[p]))

\* where a package has a directory of its own (side-by-side versioning) and
\* never verifies, no launch extracts over a sentinel that equals the UID:
\* there the sentinel is sound however launches are ended
SentinelSoundWithoutReextraction ==
  \A p \in Procs :
    (pkgOf[p].versioning = 0 /\ pkgOf[p].verification = 0 /\ SentinelCurrent(p))
      => AllFilesPackaged(TargetOf(pkgOf[p]))

\* C32: index alignment of the directory pass.  After the sequential
\* directory pass the path table has exactly one more entry than the
\* directory array, for every i >= 1 the path at parents[i] is the
\* root-relative path of the directory record at position i - 1, and so the
\* index found by searching the path table is the index at which the runner
\* reconstructs that same path, also when a directory was skipped for having
\* no included parent.
C32_IndexAlignment ==
  walked = Len(entries)
    => /\ Len(parents) = Len(directories) + 1
       /\ \A i \in 1..Len(directories) :
            parents[i + 1] = ToSlash(entries[directories[i].entry].path)
       /\ Rebuilt.ok
       /\ \A k \in 1..Len(parents) :
            ToSlash(Rebuilt.list[k]) = parents[k]

\* C33: file table alignment under concurrency.  For every interleaving of
\* the file workers, at the end of the file pass the file-record array and
\* the per-file path table have the same length and entry i of the path
\* table is the root-relative path of the file described by record i.
C33_FileTableAlignment ==
  FilePassDone
    => /\ Len(links) = Len(headers)
       /\ \A i \in 1..Len(headers) :
            links[i] = ToSlash(entries[headers[i].entry].path)

\* the file pass has ended with the records in another order than the walk
C33_Witness ==
  /\ FilePassDone
  /\ Len(headers) >= 3
  /\ \E i, j \in 1..Len(headers) : i < j /\ headers[i].entry > headers[j].entry

\* a step of a file worker, and a step of a symlink worker
FileWorkerStep ==
  \/ headers' # headers
  \/ links' # links
  \/ \E i \in OfType("file") : i \in passed' \ passed

SymlinkWorkerStep ==
  \/ symlinkRecs' # symlinkRecs
  \/ \E i \in OfType("symlink") : i \in passed' \ passed

\* C34: phase ordering in the packer.  No symlink worker resolves a target
\* before every file worker has finished appending its record and its path,
\* no file or symlink worker runs before the directory pass has finished, and
\* the path table of directories is not modified during the parallel phases.
C34_PhaseOrdering ==
  [][/\ (FileWorkerStep \/ SymlinkWorkerStep)
          => /\ walked = Len(entries)
             /\ parents' = parents
             /\ directories' = directories
     /\ SymlinkWorkerStep
          => /\ OfType("file") \subseteq passed
             /\ pushing = {}
             /\ headers' = headers
             /\ links' = links]_vars

\* a symlink worker has resolved a file target in the table of three files
C34_Witness ==
  /\ Len(symlinkRecs) = 1
  /\ symlinkRecs[1].kind = 1
  /\ Len(links) >= 3

\* launch p opens a file of its package for writing in this step
WritesFile(p) == pc[p] = "xfiles" /\ touched'[p] # touched[p]

\* launch p creates the symlink of record j in this step
CreatesLink(p, j) ==
  pc[p] = "xlinks" /\ j \in loc[p].linksLeft /\ j \notin loc'[p].linksLeft

\* C35: phase ordering in the extract pass.  Every directory of the package
\* is created before any file is written and every file is written before
\* any symlink is created, so that a file's parent directory and a file
\* symlink's target file exist when they are needed.
C35_ExtractOrder ==
  [][\A p \in Procs :
       LET d == loc[p].dir
       IN  /\ WritesFile(p)
                => /\ \A i \in 1..Len(Directories) :
                        Resolve(fs[d], d, Directories[i], LinkFuel).kind = "dir"
                   /\ loc[p].linksLeft = 1..Len(Symlinks(pkgOf[p]))
           /\ \A j \in 1..Len(Payload.links) :
                CreatesLink(p, j)
                  => /\ loc[p].filesLeft = {}
                     /\ \A i \in 1..Len(Payload.files) :
                          /\ PathIsFile(fs[d], d, RelPath(Payload.files[i]))
                          /\ \E at \in touched[p] \cap NodePaths :
                               fs[d].nodes[at]
                                 = FileNode(Decode(Payload.files[i].blob))
                     /\ Payload.links[j].kind = 1
                          => PathIsFile(fs[d], d,
                               RelPath(Payload.files[Payload.links[j].target + 1]))
                     /\ Payload.links[j].kind = 0
                          => Resolve(fs[d], d,
                                     Directories[Payload.links[j].target + 1],
                                     LinkFuel).kind = "dir"]_vars

\* a launch has created the file symlink and the directory symlink after it
\* wrote both files of this pass
C35_Witness ==
  \E p \in Procs :
    /\ pc[p] = "setver"
    /\ loc[p].should_extract
    /\ \A j \in 1..Len(SourceLinks) :
         /\ RelPath(SourceLinks[j]) \in touched[p]
         /\ fs[loc[p].dir].nodes[RelPath(SourceLinks[j])].kind = "link"
    /\ \A i \in 1..Len(SourceFiles) : RelPath(SourceFiles[i]) \in touched[p]

\* the node at the path of a symlink record is a symlink whose stored target
\* is the path of the directory or file the record names
LinkAsRecorded(f, d, rec) ==
  f.nodes[RelPath(rec)] =
    LinkNode(IF rec.kind = 0 THEN d \o Directories[rec.target + 1]
             ELSE d \o RelPath(Payload.files[rec.target + 1]))

\* launch p is at the verify pass with the sentinel equal to the UID and a
\* verification level of 1 or 2, and every file passes
LinksDecide(p) ==
  /\ pc[p] = "verify"
  /\ loc[p].sentinelEq
  /\ ~loc[p].should_extract
  /\ loc[p].verification >= 1
  /\ \A i \in 1..Len(Payload.files) :
       FileVerified(fs[loc[p].dir], loc[p].dir, loc[p].verification,
                    Payload.files[i])

\* C36: symlink verification.  With the sentinel equal to the UID and
\* verification >= 1, when the file verification passed and a symlink
\* record's path is not a symlink, or its stored target is not under the
\* unpack directory, or differs from the path of the directory (kind 0) or
\* file (kind 1) the record names, the launch performs the extract pass; when
\* every symlink matches, the symlink check does not cause extraction.
C36_SymlinkVerification ==
  [][\A p \in Procs :
       (LinksDecide(p) /\ pc'[p] # pc[p])
         => (pc'[p] = "xdirs"
               <=> \E j \in 1..Len(Symlinks(pkgOf[p])) :
                     ~LinkAsRecorded(fs[loc[p].dir], loc[p].dir,
                                     Symlinks(pkgOf[p])[j]))]_vars

\* a launch extracts because of a symlink alone: the sentinel equals the
\* UID, every file verifies, and a symlink was changed from outside
C36_Witness ==
  \E p \in Procs :
    /\ pc[p] = "xdirs"
    /\ loc[p].sentinelEq
    /\ loc[p].verified
    /\ info[p].verification >= 1
    /\ \A i \in 1..Len(Payload.files) :
         FileVerified(fs[loc[p].dir], loc[p].dir, info[p].verification,
                      Payload.files[i])
    /\ \E j \in 1..Len(Symlinks(pkgOf[p])) :
         fs[loc[p].dir].nodes[RelPath(Symlinks(pkgOf[p])[j])].kind = "link"
           /\ ~LinkAsRecorded(fs[loc[p].dir], loc[p].dir, Symlinks(pkgOf[p])[j])

\* a launch that verified intact files and intact symlinks does not extract
LinksVerifiedNoExtract ==
  \E p \in Procs :
    /\ pc[p] = "dret"
    /\ loc[p].verified
    /\ ~loc[p].should_extract
    /\ info[p].verification >= 1
    /\ Len(Symlinks(pkgOf[p])) = Len(SourceLinks)

\* the closure of every symlink record has returned or panicked
ClosuresEnded == \A j \in Closures : lpc[j] \in {"done", "fatal"}

\* C37: bounded wait in the symlink pass.  After removing an existing node
\* at a symlink's path the runner retries the existence check only a bounded
\* number of times, sleeping about 20 ms each: the symlink pass terminates
\* for every behaviour of the file system, also one in which the path keeps
\* existing.
C37_BoundedWait == <>ClosuresEnded

\* the pass ends on every file system that lets go of the names it removed
WaitEndsOnceReleased ==
  (\A j \in Closures : <>[](lnode[j] # "lingering")) => <>ClosuresEnded

\* launch p is in its extract pass over an unpack directory that holds the
\* whole tree of an extraction of its package
OverExistingTree(p) ==
  /\ pc[p] \in {"xdirs", "xfiles", "xlinks", "setver"}
  /\ fs[loc[p].dir].exists
  /\ fs[loc[p].dir].nodes = SourceTree(pkgOf[p], loc[p].dir)

\* C38: extraction is idempotent over an existing tree.  The extract pass
\* into an unpack directory that already holds a complete earlier extraction
\* of the same package, with its directory symlinks and file symlinks, ends
\* without a fatal error and leaves the same directories, files and symlinks
\* as a single extraction into an empty directory.
C38_IdempotentExtraction ==
  [][\A p \in Procs :
       OverExistingTree(p)
         => /\ pc'[p] # "fatal"
            /\ fs'[loc[p].dir].nodes = SourceTree(pkgOf[p], loc[p].dir)]_vars

\* over the tree of a package without a directory symlink every step of a
\* repeated extract pass succeeds and leaves the tree as it was
IdempotentWithoutDirectoryLink ==
  [][\A p \in Procs :
       (OverExistingTree(p) /\ pkgOf[p].nlinks = 1)
         => /\ pc'[p] # "fatal"
            /\ fs'[loc[p].dir].nodes = SourceTree(pkgOf[p], loc[p].dir)]_vars

\* a repeated extract pass over a complete tree has come to its end
ReextractedFlat ==
  \E p \in Procs :
    /\ pc[p] = "dret"
    /\ launches >= 2
    /\ loc[p].extracted
    /\ loc[p].sentinelEq
    /\ pkgOf[p].nlinks = 1


\* C39: lock release.  A launch that goes on to the spawn of its entry
\* command, whose entry command runs or has ended, or that left because
\* another instance is running, holds the lock of no unpack directory: a
\* running entry command keeps no later launch from the lock.
C39_LockRelease ==
  \A p \in Procs :
    pc[p] \in {"spawn", "running", "done", "exited"}
      => \A d \in UnpackDirs : lock[d].proc # p

\* a later launch holds the lock of the directory in which the entry command
\* of an earlier one still runs
C39_Witness ==
  \E p, q \in Procs :
    /\ p # q
    /\ pc[p] = "running"
    /\ loc[q].dir = loc[p].dir
    /\ lock[loc[p].dir] = [proc |-> q, handle |-> "guard"]

\* a launch of a once package has left and holds nothing while the entry
\* command of another runs
ExitedAfterOnceCheck ==
  \E p, q \in Procs :
    /\ p # q
    /\ pc[p] = "exited" /\ info[p].once = 1
    /\ pc[q] = "running"
    /\ lock[loc[p].dir] = Free


\* the baked arguments the runner parsed: the command's arguments before the
\* forwarded ones
Parsed == SubSeq(argv, 1, Len(argv) - (Len(procArgs) - 1))

HoldsSeparator(arg) == \E i \in 1..Len(arg) : arg[i] = SEP

\* C40 as stated: baked argument round trip.  For every list of baked
\* arguments the packer accepts, the list the runner parses from the starter
\* info is the same list, element by element, including lists with empty
\* arguments or arguments with leading or trailing white space.
C40_RoundTrip == argPc = "started" => Parsed = argList

\* C40 as amended: for every accepted list whose arguments hold no separator,
\* the runner parses the arguments without their surrounding white space, in
\* the packer's order, those that are empty after that left out; a list of
\* non-empty arguments without surrounding white space comes back as it was
\* given.
C40_RoundTripTrimmed ==
  (argPc = "started" /\ \A i \in 1..Len(argList) : ~HoldsSeparator(argList[i]))
    => LET NonEmpty(arg) == arg # <<>>
           stripped == [i \in 1..Len(argList) |-> Stripped(argList[i])]
       IN  /\ Parsed = SelectSeq(stripped, NonEmpty)
           /\ (\A i \in 1..Len(argList) : NonEmpty(argList[i]))
                /\ stripped = argList
                => Parsed = argList

\* a list with an argument that has leading white space and an empty argument
\* was parsed
C40_Witness ==
  /\ argPc = "started"
  /\ argList = <<<<32, 120>>, <<>>>>
  /\ Parsed = <<<<120>>>>

\* a list of two different clean arguments was parsed as given
RoundTripExact ==
  /\ argPc = "started"
  /\ Len(argList) = 2
  /\ argList[1] # argList[2]
  /\ Parsed = argList

\* an argument that holds the separator was parsed as two
SeparatorSplits ==
  /\ argPc = "started"
  /\ argList = <<SplitString>>
  /\ Parsed = <<<<120>>, <<121>>>>

=============================================================================
